---- MODULE Spec2Model ----
(***************************************************************************)
(* A model of the evohome_rf command/response engine and of the evohome    *)
(* system model it feeds:                                                  *)
(*   - src/evohome_rf/command.py : _pkt_header, Command, FaultLog,         *)
(*     Schedule                                                            *)
(*   - src/evohome/system.py     : System, EvoSystem                       *)
(* Each part of the program has its own specification (SpecHdr, ...), all  *)
(* over the same variables; a specification leaves the variables of the    *)
(* other parts at their initial values.                                    *)
(***************************************************************************)
EXTENDS Integers, Sequences, FiniteSets, TLC

VARIABLES
    \* --- Command headers (command.py: Command.tx_header / rx_header)
    cmd,        \* the Command under construction/inspection (a record)
    h_tx,       \* Command._tx_header (None until computed)
    h_rx,       \* Command._rx_header (None until computed, or no rx header)
    h_pc,       \* which of the two properties have been read so far
    \* --- Outbound queue (command.py: Command ordering; the transport's queue)
    now,        \* the clock dt_now() reads
    q_cmds,     \* the Command objects constructed so far: [priority, dtm]
    queue,      \* the commands in the transport's priority queue, as they were put
    tx_log,     \* the commands transmitted so far, in order
    tx_from,    \* the queue as it was when the last of them was popped
    \* --- System (system.py: System, EvoSystem) and the devices it knows
    s_clock,    \* the time inbound messages are stamped with (msg.dtm)
    s_bc,       \* System._boiler_control
    s_dhw,      \* System._dhw: which DhwZone it is, and its temp_sensor
    s_zsensor,  \* zone idx -> Zone.temp_sensor
    s_prev30c9, \* EvoSystem._prev_30c9
    s_flog,     \* EvoSystem._fault_log: the log_idx values it holds
    s_secs,     \* the controller's last 1F09 remaining_seconds
    d_ctl,      \* device -> Device.controller
    d_zone,     \* device -> Device._zone
    d_30c9,     \* device -> its last 30C9: [temp, dtm]
    s_op,       \* the call made last: update(msg, prev_msg) or a setter
    s_err,      \* the exception that call raised ("" when it returned)
    \* --- Schedule (command.py: Schedule) of the zones of one system
    zone_lock_idx,  \* EvoSystem.zone_lock_idx
    schedule_done,  \* zone idx -> Schedule._schedule_done (None as FALSE)
    rx_frags,       \* zone idx -> Schedule._rx_frags: the fragment in each slot
    rq_sent,        \* zone idx -> the RQ 0404 sent: [idx, cnt] of each payload
    tx_frags,       \* zone idx -> how many fragments Schedule._tx_frags has
    task,           \* the calls of get_schedule/set_schedule: where each is
    sched_cbs,      \* the callbacks the transport holds for 0404 requests
    schedule_obj,   \* zone idx -> Schedule._schedule: "None" or the decoded schedule
    ctl_frags,      \* how many fragments the controller's schedules have
    ctl_data,       \* what the fragments the controller sends decode to
    \* --- FaultLog (command.py: FaultLog) of one controller
    fault_log,      \* FaultLog._fault_log: the log_idx values it holds
    fault_log_done, \* FaultLog._fault_log_done (None as FALSE)
    callbacks,      \* msg_transport._callbacks, the entries for 0418
    f_inv,          \* each rq_callback made so far: how often it was called, whose it is
    f_rq,           \* the RQ 0418 the controller has not answered
    f_sent,         \* every log_idx requested so far
    f_run,          \* the calls of get_fault_log: where each is, its result
    ctl_entries,    \* how many entries the controller's fault log has
    f_last,         \* what happened last
    \* --- the schedule codec (command.py: Schedule._sched_to_frags, _frags_to_sched)
    c_sched,    \* the schedule given to _sched_to_frags
    c_frags,    \* the fragments it returned: [err, val]
    c_out,      \* what _frags_to_sched made of them: [err, val]
    c_again,    \* the fragments _sched_to_frags made of that: [err, val]
    \* --- Command construction (command.py: Command.__init__, Command.zone_mode)
    n_debug,    \* __debug__: whether assert statements run
    n_args,     \* the constructor called last, and its arguments
    n_cmd,      \* the Command it made
    n_qos,      \* the Command's qos, as __init__ leaves it
    n_err,      \* the exception it raised ("" when it returned)
    \* --- the fragments of one Schedule (command.py: Schedule._rq_fragment)
    g_rx,       \* Schedule._rx_frags: a slot holds the RP it was filled from, or None
    g_done,     \* Schedule._schedule_done
    g_obj,      \* Schedule._schedule
    g_rq,       \* the RQ 0404 that is not answered yet: fragment number, frag_cnt
    g_err,      \* the exception rq_callback raised last ("" when it returned)
    g_now,      \* the time, in minutes
    g_calls,    \* the calls of get_schedule so far
    g_pc,       \* where get_schedule is: idle, wait
    g_res,      \* what get_schedule returned or raised last
    g_last,     \* the RP 0404 received last
    g_op,       \* the step taken last
    \* --- the fragments one Schedule writes (command.py: Schedule._tx_fragment)
    x_frags,    \* Schedule._tx_frags: the length of each fragment, in characters
    x_done,     \* Schedule._schedule_done (None as FALSE)
    x_sent,     \* the W 0404 sent so far: which of _tx_frags, and the payload
    x_cb,       \* the callback the transport holds: the W's rx header
    x_last,     \* the reply given to tx_callback last: frag_index, frag_total
    x_err,      \* the exception tx_callback raised last ("" when it returned)
    x_pc,       \* where set_schedule is: idle, wait, returned, raised
    x_op        \* the step taken last

hvars == <<cmd, h_tx, h_rx, h_pc>>
qvars == <<now, q_cmds, queue, tx_log, tx_from>>
svars == <<s_clock, s_bc, s_dhw, s_zsensor, s_prev30c9, s_flog, s_secs,
           d_ctl, d_zone, d_30c9, s_op, s_err>>

kenv == <<ctl_frags, ctl_data>>
kvars == <<zone_lock_idx, schedule_done, rx_frags, rq_sent, tx_frags, task, sched_cbs,
           schedule_obj, kenv>>
fvars == <<fault_log, fault_log_done, callbacks, f_inv, f_rq, f_sent, f_run,
           ctl_entries, f_last>>

cvars == <<c_sched, c_frags, c_out, c_again>>
nvars == <<n_debug, n_args, n_cmd, n_qos, n_err>>
gvars == <<g_rx, g_done, g_obj, g_rq, g_err, g_now, g_calls, g_pc, g_res, g_last, g_op>>
xvars == <<x_frags, x_done, x_sent, x_cb, x_last, x_err, x_pc, x_op>>
pvars == <<cvars, nvars, gvars, xvars>>

vars == <<hvars, qvars, svars, kvars, fvars, pvars>>

\* Python's None where a header is expected (a header is never the empty string)
None == <<>>

(***************************************************************************)
(* Strings.  Python slices strings; here a string is a sequence of         *)
(* one-character strings, and Cat() gives it as one string.                *)
(***************************************************************************)
RECURSIVE Cat(_)
Cat(s) == IF s = <<>> THEN "" ELSE Head(s) \o Cat(Tail(s))

Min(a, b) == IF a < b THEN a ELSE b

\* Python's s[a:b] for 0 <= a (a slice never fails: it is cut to the string)
Slice(s, a, b) == SubSeq(s, a + 1, Min(b, Len(s)))

\* Python's s[a:]
SliceFrom(s, a) == SubSeq(s, a + 1, Len(s))

DigitChar(n) == <<"0", "1", "2", "3", "4", "5", "6", "7", "8", "9">>[n + 1]

\* Python's "{:03d}".format(n), for 0 <= n <= 999
Fmt03d(n) == <<DigitChar(n \div 100), DigitChar((n \div 10) % 10), DigitChar(n % 10)>>

(***************************************************************************)
(* Constants of const.py that command.py imports.                          *)
(***************************************************************************)
\* HGI_DEVICE.id: the gateway's own address (type 18)
HGI_ID == <<"1", "8", ":", "0", "0", "0", "7", "3", "0">>
CTL_ID == <<"0", "1", ":", "1", "4", "5", "0", "3", "8">>
\* a non-gateway device sending for itself (from_addr given by the caller)
RFG_ID == <<"3", "0", ":", "1", "8", "5", "4", "6", "9">>

V_I  == <<" ", "I">>
V_RQ == <<"R", "Q">>
V_RP == <<"R", "P">>
V_W  == <<" ", "W">>
Verbs == {V_I, V_RQ, V_RP, V_W}

C_0001 == <<"0", "0", "0", "1">>
C_0005 == <<"0", "0", "0", "5">>
C_000C == <<"0", "0", "0", "C">>
C_0016 == <<"0", "0", "1", "6">>
C_0404 == <<"0", "4", "0", "4">>
C_0418 == <<"0", "4", "1", "8">>
C_1F09 == <<"1", "F", "0", "9">>
C_2309 == <<"2", "3", "0", "9">>
C_313F == <<"3", "1", "3", "F">>
C_7FFF == <<"7", "F", "F", "F">>
Codes == {C_0001, C_0005, C_000C, C_0016, C_0404, C_0418, C_1F09, C_2309, C_313F, C_7FFF}

\* CODES_SANS_DOMAIN_ID (const.py): codes whose payload has no domain id; the
\* codes of Codes that are in it
CODES_SANS_DOMAIN_ID == {C_0016, C_1F09, C_313F, C_7FFF}

\* CODE_SCHEMA["0418"]["null_rp"] (const.py): the payload of 'no such log entry'
NULL_RP_0418 ==
    <<"0","0","0","0","0","0","B","0","0","0","0","0","0","0","0","0","0","0","0","0","0","0",
      "0","0","0","0","0","0","7","F","F","F","F","F","7","0","0","0","0","0","0","0","0","0">>

\* payloads the commands of this model carry
P_00       == <<"0", "0">>
P_0107D0   == <<"0", "1", "0", "7", "D", "0">>
P_000F     == <<"0", "0", "0", "F">>
P_000002   == <<"0", "0", "0", "0", "0", "2">>
P_0404_RQ  == <<"0","1","2","0","0","0","0","8","0","0","0","2","0","3">>
Payloads == {P_00, P_0107D0, P_000F, P_000002, P_0404_RQ, NULL_RP_0418}

(***************************************************************************)
(* Command.__str__ and _pkt_header                                         *)
(***************************************************************************)
\* COMMAND_FORMAT.format(verb, from_addr, dest_addr, code, len(payload)/2, payload):
\* "{:<2} --- {} {} --:------ {} {:03d} {}"
Command_str(c) ==
    c.verb \o <<" ", "-", "-", "-", " ">> \o c.from_addr \o <<" ">> \o c.dest_addr
        \o <<" ", "-", "-", ":", "-", "-", "-", "-", "-", "-", " ">>
        \o c.code \o <<" ">> \o Fmt03d(Len(c.payload) \div 2) \o <<" ">> \o c.payload

\* f"... {self}": the packet line as _pkt_header is given it (rssi, then the command)
Pkt(c) == <<".", ".", ".", " ">> \o Command_str(c)

\* extract_addrs(pkt) (helpers.py): the first two address fields of the packet line
extract_addrs(pkt) == [src |-> Slice(pkt, 11, 20), dst |-> Slice(pkt, 21, 30)]

\* Address.type: the two digits before the colon
AddrType(a) == Slice(a, 0, 2)

\* "|".join((a, b))
Join2(a, b) == a \o <<"|">> \o b

\* a plausible slip: the 0404 context takes the zone idx only (no frag idx)
pkt_header_mut0404(pkt, rx) ==
    LET verb0   == Slice(pkt, 4, 6)
        verb    == IF rx THEN (IF verb0 = V_RQ THEN V_RP ELSE V_I) ELSE verb0
        code    == Slice(pkt, 41, 45)
        a       == extract_addrs(pkt)
        addr    == IF AddrType(a.src) = <<"1", "8">> THEN a.dst ELSE a.src
        payload == SliceFrom(pkt, 50)
        header  == Join2(Join2(verb, addr), code)
    IN  IF code \in {C_0001, C_7FFF} /\ rx THEN None
        ELSE IF code \in {C_0005, C_000C} THEN Join2(header, Slice(payload, 0, 4))
        ELSE IF code = C_0404 THEN Join2(header, Slice(payload, 0, 2))
        ELSE IF code = C_0418
             THEN IF payload = NULL_RP_0418 THEN header
                  ELSE Join2(header, Slice(payload, 4, 6))
        ELSE IF code \in CODES_SANS_DOMAIN_ID THEN header
        ELSE Join2(header, Slice(payload, 0, 2))

\* a plausible slip: the response verb is always RP
pkt_header_mutverb(pkt, rx) ==
    LET verb0   == Slice(pkt, 4, 6)
        verb    == IF rx THEN V_RP ELSE verb0
        code    == Slice(pkt, 41, 45)
        a       == extract_addrs(pkt)
        addr    == IF AddrType(a.src) = <<"1", "8">> THEN a.dst ELSE a.src
        payload == SliceFrom(pkt, 50)
        header  == Join2(Join2(verb, addr), code)
    IN  IF code \in {C_0001, C_7FFF} /\ rx THEN None
        ELSE IF code \in {C_0005, C_000C} THEN Join2(header, Slice(payload, 0, 4))
        ELSE IF code = C_0404
             THEN Join2(header, Slice(payload, 0, 2) \o Slice(payload, 10, 12))
        ELSE IF code = C_0418
             THEN IF payload = NULL_RP_0418 THEN header
                  ELSE Join2(header, Slice(payload, 4, 6))
        ELSE IF code \in CODES_SANS_DOMAIN_ID THEN header
        ELSE Join2(header, Slice(payload, 0, 2))

\* _pkt_header(pkt, rx_header): the QoS (correlation) header of a packet
pkt_header(pkt, rx) ==
    LET verb0   == Slice(pkt, 4, 6)
        verb    == IF rx THEN (IF verb0 = V_RQ THEN V_RP ELSE V_I) ELSE verb0
        code    == Slice(pkt, 41, 45)
        a       == extract_addrs(pkt)
        addr    == IF AddrType(a.src) = <<"1", "8">> THEN a.dst ELSE a.src
        payload == SliceFrom(pkt, 50)
        header  == Join2(Join2(verb, addr), code)
    IN  IF code \in {C_0001, C_7FFF} /\ rx THEN None
        ELSE IF code \in {C_0005, C_000C} THEN Join2(header, Slice(payload, 0, 4))
        ELSE IF code = C_0404
             THEN Join2(header, Slice(payload, 0, 2) \o Slice(payload, 10, 12))
        ELSE IF code = C_0418
             THEN IF payload = NULL_RP_0418 THEN header
                  ELSE Join2(header, Slice(payload, 4, 6))
        ELSE IF code \in CODES_SANS_DOMAIN_ID THEN header
        ELSE Join2(header, Slice(payload, 0, 2))

(***************************************************************************)
(* Bounds, and the state each part starts in                               *)
(***************************************************************************)
\* bound of the queue model: how many commands are constructed
MaxCmds == 3

\* Command.__init__: the fields the headers are derived from; from_addr defaults
\* to the gateway (HGI_DEVICE.id)
Command_init(verb, from_addr, dest_addr, code, payload) ==
    [verb |-> verb, from_addr |-> from_addr, dest_addr |-> dest_addr,
     code |-> code, payload |-> payload]

\* where the variables of each part start
HdrIdle == cmd = Command_init(V_I, HGI_ID, CTL_ID, C_0001, P_00)
               /\ h_tx = None /\ h_rx = None /\ h_pc = "new"

QueueIdle ==
    /\ now = 0
    /\ q_cmds = <<>>
    /\ queue = <<>>
    /\ tx_log = <<>>
    /\ tx_from = <<>>

(***************************************************************************)
(* Devices, zones and messages of the system model                         *)
(***************************************************************************)
\* "no device": an unset reference (Python's None), and the 'no address'
NoDev == "--:------"
\* the system's own controller, and a neighbour's
CTL  == "01:145038"
CTL2 == "01:078710"
\* heat relays: an OpenTherm bridge and two TPI relays
OTB  == "10:067219"
TPI  == "13:237335"
TPI2 == "13:049798"
\* DHW sensors
DHW  == "07:030741"
DHW2 == "07:045960"
\* devices with a temperature sensor: a thermostat and a radiator valve
SEN1 == "34:092243"
SEN2 == "04:056053"

\* Address.type: the two digits before the colon
DevType(d) ==
    CASE d \in {CTL, CTL2} -> "01"
      [] d = OTB -> "10"
      [] d \in {TPI, TPI2} -> "13"
      [] d \in {DHW, DHW2} -> "07"
      [] d = SEN1 -> "34"
      [] d = SEN2 -> "04"
      [] OTHER -> "--"

\* gateway.devices: every device the gateway has seen
Devices == {CTL, CTL2, OTB, TPI, TPI2, DHW, DHW2, SEN1, SEN2}

\* DEVICE_HAS_ZONE_SENSOR (const.py): the device types that report a temperature
DEVICE_HAS_ZONE_SENSOR == {"03", "04", "12", "22", "34"}

\* the zones of the system (System.zones, zone_by_idx), and "no zone"
ZoneIdx == {"00", "01"}
NoZone == "--"

\* Python's None as a temperature, as remaining_seconds, as a time
NoTemp == -1
NoSecs == -1
NoTime == -1

\* bound of the system model: the latest time stamp of a message
MaxClock == 2

\* the temperatures and sync-cycle lengths the messages of this model carry
Temps == {19, 20}
Secs == {1}

\* no message (prev_msg=None); of a message handled before, update reads these
NoMsg == [src |-> NoDev, verb |-> "--", code |-> "----"]

\* no 30C9 array yet (_prev_30c9 = None)
NoArr == [some |-> FALSE, dtm |-> NoTime, arr |-> <<>>]

\* the DhwZone objects: none, the one get_zone("FA") creates, and another
NoDhw == "none"
DhwFA == "FA"
DhwZones == {DhwFA, "another DhwZone"}

SysIdle ==
    /\ s_clock = 0
    /\ s_bc = NoDev
    /\ s_dhw = [zone |-> NoDhw, sensor |-> NoDev]
    /\ s_zsensor = [z \in ZoneIdx |-> NoDev]
    /\ s_prev30c9 = NoArr
    /\ s_flog = {}
    /\ s_secs = NoSecs
    /\ d_ctl = [d \in Devices |-> IF d = CTL2 THEN CTL2 ELSE NoDev]
    /\ d_zone = [d \in Devices |-> NoZone]
    /\ d_30c9 = [d \in Devices |-> [temp |-> NoTemp, dtm |-> NoTime]]
    /\ s_op = [name |-> "none", dev |-> NoDev]
    /\ s_err = ""

\* bounds of the schedule model: the calls of get_schedule/set_schedule, and
\* the fragments of a schedule
MaxTasks == 2
MaxFrags == 3

SchedIdle ==
    /\ zone_lock_idx = NoZone
    /\ schedule_done = [z \in ZoneIdx |-> FALSE]
    /\ rx_frags = [z \in ZoneIdx |-> <<>>]
    /\ rq_sent = [z \in ZoneIdx |-> <<>>]
    /\ tx_frags = [z \in ZoneIdx |-> 0]
    /\ task = <<>>
    /\ sched_cbs = {}
    /\ schedule_obj = [z \in ZoneIdx |-> "None"]
    /\ ctl_frags = 1
    /\ ctl_data = "schedule"

\* bounds of the fault log model: the calls of get_fault_log, and the entries
\* of the controller's fault log
MaxRuns == 2
MaxEntries == 1

\* a call that was not made yet, a schedule with nothing in it, and a stream of
\* no data
NotCalled == "not called"
EmptySchedule == [zone_idx |-> <<>>, schedule |-> <<>>]
EmptyStream == [level |-> 9, wbits |-> 14, data |-> <<>>]

CodecIdle ==
    /\ c_sched = EmptySchedule
    /\ c_frags = [err |-> NotCalled, val |-> EmptyStream]
    /\ c_out = [err |-> NotCalled, val |-> EmptySchedule]
    /\ c_again = [err |-> NotCalled, val |-> EmptyStream]

CtorIdle ==
    /\ n_debug = TRUE
    /\ n_args = [fn |-> NotCalled]
    /\ n_cmd = Command_init(<<>>, <<>>, <<>>, <<>>, <<>>)
    /\ n_qos = [priority |-> 0, retries |-> 0, timeout |-> 0]
    /\ n_err = NotCalled

FragIdle ==
    /\ g_rx = <<>>
    /\ g_done = FALSE
    /\ g_obj = "None"
    /\ g_rq = [idx |-> 0, cnt |-> 0]
    /\ g_err = ""
    /\ g_now = 0
    /\ g_calls = 0
    /\ g_pc = "idle"
    /\ g_res = "not called"
    /\ g_last = [some |-> FALSE, index |-> 0, total |-> 0, dtm |-> 0]
    /\ g_op = "none"

PutIdle ==
    /\ x_frags = <<>>
    /\ x_done = FALSE
    /\ x_sent = <<>>
    /\ x_cb = [some |-> FALSE, header |-> <<>>]
    /\ x_last = [some |-> FALSE, index |-> 0, total |-> 0]
    /\ x_err = ""
    /\ x_pc = "idle"
    /\ x_op = "none"

PureIdle == CodecIdle /\ CtorIdle /\ FragIdle /\ PutIdle

FaultIdle ==
    /\ fault_log = {}
    /\ fault_log_done = FALSE
    /\ callbacks = {}
    /\ f_inv = <<>>
    /\ f_rq = {}
    /\ f_sent = {}
    /\ f_run = <<>>
    /\ ctl_entries = 0
    /\ f_last = "none"

(***************************************************************************)
(* Command priorities and the outbound queue                               *)
(***************************************************************************)
\* Priority = SimpleNamespace(LOWEST=8, LOW=6, DEFAULT=4, HIGH=2, HIGHEST=0)
Priority_HIGHEST == 0
Priority_HIGH == 2
Priority_DEFAULT == 4
Priority_LOW == 6
Priority_LOWEST == 8

\* a plausible slip: only the request for a schedule fragment is hurried
Command_qos_mut(verb, code) ==
    IF code \in {C_0016, C_1F09} /\ verb = V_RQ
    THEN [priority |-> Priority_HIGH, retries |-> 5, timeout |-> 0]
    ELSE IF code = C_0404 /\ verb = V_RQ
    THEN [priority |-> Priority_HIGH, retries |-> 3, timeout |-> 3]
    ELSE IF code = C_0418 /\ verb = V_RQ
    THEN [priority |-> Priority_LOW, retries |-> 3, timeout |-> 0]
    ELSE [priority |-> Priority_DEFAULT, retries |-> 3, timeout |-> 0]

\* Command._qos: the default QoS of a command, from its verb and code (the
\* timeout, which only 0404 sets, is in tenths of a second; 0 is 'not set')
Command_qos(verb, code) ==
    IF code \in {C_0016, C_1F09} /\ verb = V_RQ
    THEN [priority |-> Priority_HIGH, retries |-> 5, timeout |-> 0]
    ELSE IF code = C_0404 /\ verb \in {V_RQ, V_W}
    THEN [priority |-> Priority_HIGH, retries |-> 3, timeout |-> 3]
    ELSE IF code = C_0418 /\ verb = V_RQ
    THEN [priority |-> Priority_LOW, retries |-> 3, timeout |-> 0]
    ELSE [priority |-> Priority_DEFAULT, retries |-> 3, timeout |-> 0]

\* a plausible slip: the comparison looks at the tiebreaker only
Command_lt_mutdtm(a, b) == a.dtm < b.dtm

\* a plausible slip: the comparison looks at the priority only
Command_lt_mutprio(a, b) == a.priority < b.priority

\* Command.__lt__: (priority, priority_dtm) < (priority, priority_dtm), as tuples
Command_lt(a, b) ==
    \/ a.priority < b.priority
    \/ a.priority = b.priority /\ a.dtm < b.dtm

(***************************************************************************)
(* SpecHdr: a Command and its two header properties                        *)
(***************************************************************************)
InitHdr ==
    /\ QueueIdle /\ SysIdle /\ SchedIdle /\ FaultIdle /\ PureIdle
    /\ \E v \in Verbs, f \in {HGI_ID, RFG_ID}, c \in Codes, p \in Payloads :
           cmd = Command_init(v, f, CTL_ID, c, p)
    /\ h_tx = None
    /\ h_rx = None
    /\ h_pc = "new"

\* Command.tx_header: computed on first use, then cached
tx_header ==
    /\ h_pc = "new"
    /\ h_tx' = IF h_tx = None THEN pkt_header(Pkt(cmd), FALSE) ELSE h_tx
    /\ h_pc' = "tx"
    /\ UNCHANGED <<cmd, h_rx>>
    /\ UNCHANGED <<qvars, svars, kvars, fvars, pvars>>

\* Command.rx_header: reads tx_header first, then computes the response header
rx_header ==
    /\ h_pc \in {"new", "tx"}
    /\ LET tx == IF h_tx = None THEN pkt_header(Pkt(cmd), FALSE) ELSE h_tx
       IN  /\ h_tx' = tx
           /\ h_rx' = IF tx /= None /\ h_rx = None
                      THEN pkt_header(Pkt(cmd), TRUE) ELSE h_rx
    /\ h_pc' = "rx"
    /\ UNCHANGED cmd
    /\ UNCHANGED <<qvars, svars, kvars, fvars, pvars>>

NextHdr == tx_header \/ rx_header

SpecHdr == InitHdr /\ [][NextHdr]_vars

(***************************************************************************)
(* SpecQ: commands are constructed, enqueued and transmitted               *)
(***************************************************************************)
InitQ == HdrIdle /\ QueueIdle /\ SysIdle /\ SchedIdle /\ FaultIdle /\ PureIdle

\* Command(verb, dest, code, payload, qos=...): the QoS is the code's default,
\* updated with the caller's, and the tiebreaker is dt_now() at construction
\* (the clock has advanced since it was last read)
Construct(verb, code, qosarg) ==
    /\ Len(q_cmds) < MaxCmds
    /\ LET qos == Command_qos(verb, code)
           priority == IF qosarg = <<>> THEN qos.priority ELSE qosarg[1]
       IN  q_cmds' = Append(q_cmds, [priority |-> priority, dtm |-> now + 1])
    /\ now' = now + 1
    /\ UNCHANGED <<queue, tx_log, tx_from>>
    /\ UNCHANGED <<hvars, svars, kvars, fvars, pvars>>

Built(i) ==
    /\ i \in 1..Len(q_cmds)
    /\ \A k \in 1..Len(queue) : queue[k] /= i
    /\ \A m \in 1..Len(tx_log) : tx_log[m] /= i

\* send(cmd): the command is put into the priority queue
Enqueue(i) ==
    /\ Built(i)
    /\ queue' = Append(queue, i)
    /\ UNCHANGED <<now, q_cmds, tx_log, tx_from>>
    /\ UNCHANGED <<hvars, svars, kvars, fvars, pvars>>

\* PriorityQueue.get: the smallest command of the queue, by Command's own ordering
IsMin(k) == \A j \in 1..Len(queue) :
                j /= k => ~Command_lt(q_cmds[queue[j]], q_cmds[queue[k]])

\* s without its k-th element
Without(s, k) == SubSeq(s, 1, k - 1) \o SubSeq(s, k + 1, Len(s))

\* the outbound loop: pop the highest-priority command and transmit it
Transmit(k) ==
    /\ k \in 1..Len(queue)
    /\ IsMin(k)
    /\ queue' = Without(queue, k)
    /\ tx_log' = Append(tx_log, queue[k])
    /\ tx_from' = queue
    /\ UNCHANGED <<now, q_cmds>>
    /\ UNCHANGED <<hvars, svars, kvars, fvars, pvars>>

NextQ ==
    \/ \E v \in {V_RQ, V_W}, c \in {C_1F09, C_0418, C_2309},
          qa \in {<<>>, <<Priority_HIGHEST>>} : Construct(v, c, qa)
    \/ \E i \in 1..MaxCmds : Enqueue(i)
    \/ \E k \in 1..MaxCmds : Transmit(k)

SpecQ == InitQ /\ [][NextQ]_vars

(***************************************************************************)
(* System and EvoSystem (system.py)                                        *)
(***************************************************************************)
\* the state update() works on, as one record; err is the exception raised
SysState ==
    [bc |-> s_bc, dhw |-> s_dhw, zsensor |-> s_zsensor, prev30c9 |-> s_prev30c9,
     flog |-> s_flog, d_ctl |-> d_ctl, d_zone |-> d_zone, err |-> ""]

Raise(S, e) == [S EXCEPT !.err = e]

\* a plausible slip: the setter assigns whatever it is given
boiler_control_set_mut(S, device) ==
    IF DevType(device) \notin {"10", "13"} THEN Raise(S, "TypeError")
    ELSE [S EXCEPT !.bc = device]

\* System.boiler_control (setter)
boiler_control_set(S, device) ==
    IF device = NoDev \/ DevType(device) \notin {"10", "13"} THEN Raise(S, "TypeError")
    ELSE IF S.bc /= NoDev /\ S.bc /= device THEN Raise(S, "LookupError")
    ELSE IF S.bc = NoDev THEN [S EXCEPT !.bc = device]
    ELSE S

\* Device.controller (setter, devices.py): a device keeps the controller it has
controller_set(S, device, ctl) ==
    IF S.d_ctl[device] /= NoDev /\ S.d_ctl[device] /= ctl THEN Raise(S, "LookupError")
    ELSE [S EXCEPT !.d_ctl[device] = ctl]

\* Zone.temp_sensor (setter, zones.py): a zone keeps the sensor it has; a new
\* sensor is told its zone
temp_sensor_set(S, z, device) ==
    IF S.zsensor[z] /= NoDev /\ S.zsensor[z] /= device THEN Raise(S, "LookupError")
    ELSE IF S.zsensor[z] = NoDev
         THEN [S EXCEPT !.zsensor[z] = device, !.d_zone[device] = z]
    ELSE S

\* DhwZone.temp_sensor (setter, zones.py): the DHW zone keeps the sensor it has
dhw_temp_sensor_set(S, device) ==
    IF DevType(device) /= "07" THEN Raise(S, "TypeError")
    ELSE IF S.dhw.sensor /= NoDev /\ S.dhw.sensor /= device THEN Raise(S, "LookupError")
    ELSE [S EXCEPT !.dhw.sensor = device]

\* System.get_zone("FA"): the DHW zone, created if the system has none
get_zone_FA(S) == IF S.dhw.zone /= NoDhw THEN S ELSE [S EXCEPT !.dhw.zone = DhwFA]

\* System.dhw (setter)
dhw_set(S, dhw) ==
    IF dhw \notin DhwZones THEN Raise(S, "ValueError")
    ELSE IF S.dhw.zone /= NoDhw /\ S.dhw.zone /= dhw THEN Raise(S, "LookupError")
    ELSE IF S.dhw.zone = NoDhw THEN [S EXCEPT !.dhw.zone = dhw]
    ELSE S

\* a plausible slip: the relay of a 3B00 pair is taken from this message
find_htg_relay_mut(S, this, prev) ==
    LET heater ==
            IF this.code = "3220" /\ this.verb = "RQ"
            THEN (IF this.src = CTL /\ DevType(this.dst) = "10" THEN this.dst ELSE NoDev)
            ELSE IF this.code = "3EF0" /\ this.verb = "RQ"
            THEN (IF this.src = CTL /\ DevType(this.dst) \in {"10", "13"}
                  THEN this.dst ELSE NoDev)
            ELSE IF this.code = "3B00" /\ this.verb = " I" /\ prev /= NoMsg
            THEN (IF /\ prev.code = this.code /\ prev.verb = this.verb
                     /\ DevType(this.src) = "13" /\ prev.src = CTL
                  THEN this.src ELSE NoDev)
            ELSE NoDev
    IN  IF heater /= NoDev THEN boiler_control_set(S, heater) ELSE S

\* EvoSystem.update.find_htg_relay(this, prev)
find_htg_relay(S, this, prev) ==
    LET heater ==
            IF this.code = "3220" /\ this.verb = "RQ"
            THEN (IF this.src = CTL /\ DevType(this.dst) = "10" THEN this.dst ELSE NoDev)
            ELSE IF this.code = "3EF0" /\ this.verb = "RQ"
            THEN (IF this.src = CTL /\ DevType(this.dst) \in {"10", "13"}
                  THEN this.dst ELSE NoDev)
            ELSE IF this.code = "3B00" /\ this.verb = " I" /\ prev /= NoMsg
            THEN (IF /\ prev.code = this.code /\ prev.verb = this.verb
                     /\ this.src = CTL /\ DevType(prev.src) = "13"
                  THEN prev.src ELSE NoDev)
            ELSE NoDev
    IN  IF heater /= NoDev THEN boiler_control_set(S, heater) ELSE S

\* EvoSystem.update.find_dhw_sensor(this)
find_dhw_sensor(S, this) ==
    LET sensor == IF /\ this.code = "10A0" /\ this.verb = "RP"
                     /\ this.src = CTL /\ DevType(this.dst) = "07"
                  THEN this.dst ELSE NoDev
    IN  IF sensor /= NoDev THEN dhw_temp_sensor_set(get_zone_FA(S), sensor) ELSE S

\* [z for z in self.zones if z.temp_sensor is None]
Sensorless(S) == {z \in ZoneIdx : S.zsensor[z] = NoDev}

\* the entries of a 30C9 array that are not in the previous array, in order
ChangedZones(msg, prev) ==
    LET InPrev(e) == \E k \in 1..Len(prev.arr) : prev.arr[k] = e
        Changed(e) == ~InPrev(e)
    IN  SelectSeq(msg.arr, Changed)

\* the changed zones with no sensor and a temperature that is not None and not
\* that of another changed zone
TestableZones(S, changed) ==
    LET Testable(e) ==
            /\ S.zsensor[e.zone_idx] = NoDev
            /\ e.temperature /= NoTemp
            /\ \A k \in 1..Len(changed) :
                   changed[k].zone_idx /= e.zone_idx
                       => changed[k].temperature /= e.temperature
    IN  SelectSeq(changed, Testable)

\* the devices of the gateway that may be the sensor of a zone of this system
TestableSensors(S, prev) ==
    {d \in Devices :
        /\ S.d_ctl[d] \in {CTL, NoDev}
        /\ DevType(d) \in DEVICE_HAS_ZONE_SENSOR
        /\ d_30c9[d].temp /= NoTemp
        /\ d_30c9[d].dtm > prev.dtm}

\* a plausible slip: the zone the sensor is known to be in is not looked at
MatchingSensors_mut(S, sensors, z, t) ==
    {d \in sensors : d_30c9[d].temp = t}

\* [s for s in testable_sensors if s.temperature == temp and s._zone in (zone_idx, None)]
MatchingSensors(S, sensors, z, t) ==
    {d \in sensors : d_30c9[d].temp = t /\ S.d_zone[d] \in {z, NoZone}}

\* a plausible slip: a zone is bound as soon as some sensor matches
RECURSIVE match_zones_mut(_, _, _)
match_zones_mut(S, testable, sensors) ==
    IF testable = <<>> \/ S.err /= "" THEN S
    ELSE LET z == Head(testable).zone_idx
             matching == MatchingSensors(S, sensors, z, Head(testable).temperature)
             S1 == IF Cardinality(matching) >= 1
                   THEN LET d == CHOOSE d \in matching : TRUE
                            S2 == temp_sensor_set(S, z, d)
                        IN  IF S2.err /= "" THEN S2 ELSE controller_set(S2, d, CTL)
                   ELSE S
         IN  match_zones_mut(S1, Tail(testable), sensors)

\* find_zone_sensors, the main matching algorithm: the loop over the testable zones
RECURSIVE match_zones(_, _, _)
match_zones(S, testable, sensors) ==
    IF testable = <<>> \/ S.err /= "" THEN S
    ELSE LET z == Head(testable).zone_idx
             matching == MatchingSensors(S, sensors, z, Head(testable).temperature)
             S1 == IF Cardinality(matching) = 1
                   THEN LET d == CHOOSE d \in matching : TRUE
                            S2 == temp_sensor_set(S, z, d)
                        IN  IF S2.err /= "" THEN S2 ELSE controller_set(S2, d, CTL)
                   ELSE S
         IN  match_zones(S1, Tail(testable), sensors)

\* a plausible slip: the exclusion step takes the first changed zone, with or
\* without a sensor
match_controller_mut(S, changed, sensors) ==
    IF S.err /= "" THEN S
    ELSE IF S.d_zone[CTL] /= NoZone THEN S
    ELSE IF Cardinality(Sensorless(S)) /= 1 THEN S
    ELSE LET z == Head(changed).zone_idx
             matching == MatchingSensors(S, sensors, z, Head(changed).temperature)
         IN  IF matching = {}
             THEN [S EXCEPT !.zsensor[z] = CTL, !.d_zone[CTL] = z, !.d_ctl[CTL] = CTL]
             ELSE S

\* find_zone_sensors, the end: the controller as the sensor of the one zone left
match_controller(S, changed, sensors) ==
    IF S.err /= "" THEN S
    ELSE IF S.d_zone[CTL] /= NoZone THEN S
    ELSE IF Cardinality(Sensorless(S)) /= 1 THEN S
    ELSE LET NoSensor(e) == S.zsensor[e.zone_idx] = NoDev
             testable == SelectSeq(changed, NoSensor)
         IN  IF testable = <<>> THEN S
             ELSE LET z == Head(testable).zone_idx
                      matching == MatchingSensors(S, sensors, z, Head(testable).temperature)
                  IN  IF matching = {}
                      THEN LET S2 == temp_sensor_set(S, z, CTL)
                           IN  IF S2.err /= "" THEN S2 ELSE controller_set(S2, CTL, CTL)
                      ELSE S

\* a plausible slip: the age of the array before is not looked at
find_zone_sensors_mut(S, msg) ==
    LET prev == S.prev30c9
        S1 == [S EXCEPT !.prev30c9 = [some |-> TRUE, dtm |-> msg.dtm, arr |-> msg.arr]]
    IN  IF ~prev.some THEN S1
        ELSE IF Sensorless(S1) = {} THEN S1
        ELSE IF s_secs = NoSecs THEN S1
        ELSE LET changed == ChangedZones(msg, prev)
                 testable == TestableZones(S1, changed)
                 sensors == TestableSensors(S1, prev)
             IN  IF changed = <<>> THEN S1
                 ELSE IF testable = <<>> THEN S1
                 ELSE match_controller(
                          IF sensors /= {} THEN match_zones(S1, testable, sensors) ELSE S1,
                          changed, sensors)

\* EvoSystem.update.find_zone_sensors(), for the 30C9 array msg
find_zone_sensors(S, msg) ==
    LET prev == S.prev30c9
        S1 == [S EXCEPT !.prev30c9 = [some |-> TRUE, dtm |-> msg.dtm, arr |-> msg.arr]]
    IN  IF ~prev.some THEN S1
        ELSE IF Sensorless(S1) = {} THEN S1
        ELSE IF s_secs = NoSecs \/ msg.dtm > prev.dtm + s_secs THEN S1
        ELSE LET changed == ChangedZones(msg, prev)
                 testable == TestableZones(S1, changed)
                 sensors == TestableSensors(S1, prev)
             IN  IF changed = <<>> THEN S1
                 ELSE IF testable = <<>> THEN S1
                 ELSE match_controller(
                          IF sensors /= {} THEN match_zones(S1, testable, sensors) ELSE S1,
                          changed, sensors)

\* EvoSystem.update(msg, prev_msg)
update(S, msg, prev) ==
    LET S1 == IF msg.code = "0418" /\ msg.verb \in {" I", "RP"}
              THEN [S EXCEPT !.flog = @ \cup {msg.val}] ELSE S
        S2 == IF msg.code = "30C9" /\ msg.is_array THEN find_zone_sensors(S1, msg) ELSE S1
    IN  IF S2.err /= "" THEN S2
        ELSE IF /\ prev /= NoMsg
                /\ S2.d_ctl[prev.src] /= NoDev
                /\ S2.d_ctl[prev.src] /= CTL
        THEN S2
        ELSE IF msg.code \in {"3220", "3B00", "3EF0"} THEN find_htg_relay(S2, msg, prev)
        ELSE IF msg.code \in {"10A0", "1260"} THEN find_dhw_sensor(S2, msg)
        ELSE S2

\* the state after a call, from the record it worked on
SysStore(S) ==
    /\ s_bc' = S.bc
    /\ s_dhw' = S.dhw
    /\ s_zsensor' = S.zsensor
    /\ s_prev30c9' = S.prev30c9
    /\ s_flog' = S.flog
    /\ d_ctl' = S.d_ctl
    /\ d_zone' = S.d_zone
    /\ s_err' = S.err

\* what update() reads of the message before: its source, verb and code
Brief(msg) == [src |-> msg.src, verb |-> msg.verb, code |-> msg.code]

\* an inbound message reaches the topology layer: the sending device keeps it
\* (Device.update, devices.py: a sensor's temperature, the controller's sync
\* cycle), and the system's update() is given it, with the message before it
\* or with none
Recv(msg, prev) ==
    /\ msg.dtm = s_clock
    /\ d_30c9' = IF msg.code = "30C9" /\ ~msg.is_array /\ msg.verb = " I"
                 THEN [d_30c9 EXCEPT ![msg.src] = [temp |-> msg.val, dtm |-> msg.dtm]]
                 ELSE d_30c9
    /\ s_secs' = IF msg.code = "1F09" /\ msg.src = CTL /\ msg.verb \in {" I", "RP"}
                 THEN msg.val ELSE s_secs
    /\ SysStore(update(SysState, msg, prev))
    /\ s_op' = [name |-> IF msg.is_array THEN "update_array" ELSE "update",
                dev |-> NoDev]
    /\ UNCHANGED s_clock
    /\ UNCHANGED <<hvars, qvars, kvars, fvars, pvars>>

\* system.boiler_control = device, called directly
SetBoilerControl(device) ==
    /\ SysStore(boiler_control_set(SysState, device))
    /\ s_op' = [name |-> "boiler_control", dev |-> device]
    /\ UNCHANGED <<s_clock, s_secs, d_30c9>>
    /\ UNCHANGED <<hvars, qvars, kvars, fvars, pvars>>

\* system.dhw = dhw, called directly
SetDhw(dhw) ==
    /\ SysStore(dhw_set(SysState, dhw))
    /\ s_op' = [name |-> "dhw", dev |-> NoDev]
    /\ UNCHANGED <<s_clock, s_secs, d_30c9>>
    /\ UNCHANGED <<hvars, qvars, kvars, fvars, pvars>>

\* time passes
SysTick ==
    /\ s_clock < MaxClock
    /\ s_clock' = s_clock + 1
    /\ UNCHANGED <<s_bc, s_dhw, s_zsensor, s_prev30c9, s_flog, s_secs,
                   d_ctl, d_zone, d_30c9, s_op, s_err>>
    /\ UNCHANGED <<hvars, qvars, kvars, fvars, pvars>>

Msg(src, dst, verb, code, is_array, arr, val, dtm) ==
    [src |-> src, dst |-> dst, verb |-> verb, code |-> code,
     is_array |-> is_array, arr |-> arr, val |-> val, dtm |-> dtm]

(***************************************************************************)
(* SpecSys: the messages that tell of the heat relay, the DHW sensor and   *)
(* the fault log reach the system, among any others between its devices    *)
(***************************************************************************)
SysSrc == {CTL, CTL2, TPI, TPI2}
\* the second TPI relay is heard only by its own 3B00: no message is sent to it
SysDst == {CTL, OTB, TPI, DHW, DHW2}
SysCodes == {"3220", "3EF0", "3B00", "10A0", "0418"}

SysMsgs(dtm) ==
    {Msg(src, dst, verb, code, FALSE, <<>>, 0, dtm) :
        src \in SysSrc, dst \in SysDst,
        verb \in {" I", "RQ", "RP"}, code \in SysCodes}

\* the message before: none, a 3B00 of any of the senders, or another message
\* of the relay
SysPrev ==
    {NoMsg, [src |-> TPI, verb |-> " I", code |-> "3220"]}
        \cup {Brief(m) : m \in {x \in SysMsgs(0) : x.code = "3B00" /\ x.verb /= "RP"}}

\* the neighbour's relay may be known to belong to the neighbour's controller
InitSys ==
    /\ HdrIdle /\ QueueIdle /\ SchedIdle /\ FaultIdle /\ PureIdle
    /\ s_clock = 0
    /\ s_bc = NoDev
    /\ s_dhw = [zone |-> NoDhw, sensor |-> NoDev]
    /\ s_zsensor = [z \in ZoneIdx |-> NoDev]
    /\ s_prev30c9 = NoArr
    /\ s_flog = {}
    /\ s_secs = NoSecs
    /\ \E c \in {NoDev, CTL2} :
           d_ctl = [d \in Devices |-> IF d = CTL2 THEN CTL2 ELSE IF d = TPI2 THEN c ELSE NoDev]
    /\ d_zone = [d \in Devices |-> NoZone]
    /\ d_30c9 = [d \in Devices |-> [temp |-> NoTemp, dtm |-> NoTime]]
    /\ s_op = [name |-> "none", dev |-> NoDev]
    /\ s_err = ""

NextSys ==
    \/ \E m \in SysMsgs(s_clock), prev \in SysPrev : Recv(m, prev)
    \/ \E d \in SysDst : SetBoilerControl(d)
    \/ \E z \in DhwZones \cup {"01"} : SetDhw(z)

SpecSys == InitSys /\ [][NextSys]_vars

(***************************************************************************)
(* SpecZone: the sensors report their temperatures and the controller its  *)
(* sync cycle (1F09) and its zones' temperatures (30C9 arrays)             *)
(***************************************************************************)
Sensors == {SEN1, SEN2}

\* a 30C9 array: an entry for each zone, in the order of the zones
Arrays == {<<[zone_idx |-> "00", temperature |-> t0],
             [zone_idx |-> "01", temperature |-> t1]>> :
               t0 \in Temps \cup {NoTemp}, t1 \in Temps \cup {NoTemp}}

ZoneMsgs(dtm) ==
    {Msg(CTL, CTL, " I", "30C9", TRUE, a, 0, dtm) : a \in Arrays}
        \cup {Msg(d, d, " I", "30C9", FALSE, <<>>, t, dtm) :
                  d \in Sensors, t \in Temps}
        \cup {Msg(CTL, CTL, " I", "1F09", FALSE, <<>>, secs, dtm) : secs \in Secs}

\* the message before: none, or a temperature of the radiator valve
ZonePrev == {NoMsg, [src |-> SEN2, verb |-> " I", code |-> "30C9"]}

\* the radiator valve may be known to be in zone 01, or to be a neighbour's
InitZone ==
    /\ HdrIdle /\ QueueIdle /\ SchedIdle /\ FaultIdle /\ PureIdle
    /\ s_clock = 0
    /\ s_bc = NoDev
    /\ s_dhw = [zone |-> NoDhw, sensor |-> NoDev]
    /\ s_zsensor = [z \in ZoneIdx |-> NoDev]
    /\ s_prev30c9 = NoArr
    /\ s_flog = {}
    /\ s_secs = NoSecs
    /\ \E c \in {NoDev, CTL, CTL2} :
           d_ctl = [d \in Devices |-> IF d = CTL2 THEN CTL2 ELSE IF d = SEN2 THEN c ELSE NoDev]
    /\ \E z \in {NoZone, "01"} :
           d_zone = [d \in Devices |-> IF d = SEN2 THEN z ELSE NoZone]
    /\ d_30c9 = [d \in Devices |-> [temp |-> NoTemp, dtm |-> NoTime]]
    /\ s_op = [name |-> "none", dev |-> NoDev]
    /\ s_err = ""

NextZone ==
    \/ \E m \in ZoneMsgs(s_clock), prev \in ZonePrev : Recv(m, prev)
    \/ SysTick

SpecZone == InitZone /\ [][NextZone]_vars

(***************************************************************************)
(* Schedule (command.py): get_schedule and set_schedule of the zones of    *)
(* one system, as tasks of one event loop; a task runs from one await to   *)
(* the next without interruption                                           *)
(***************************************************************************)
Tasks == 1..MaxTasks

\* a task that has not been created
NoTask ==
    [pc |-> "idle", zone |-> NoZone, op |-> "none", force |-> FALSE, frags |-> 0, res |-> ""]

\* the correlation of a callback the transport holds for a 0404 request: the
\* zone and the fragment number of the rx header, and whose callback it is
Callback(z, kind, n) == [zone |-> z, kind |-> kind, idx |-> n]

\* None as a slot of _rx_frags; fragment i of a schedule is written i
NoFrag == 0

\* a plausible slip: the last missing slot, not the first
FirstMissing_mut(frags) ==
    IF \E i \in 1..Len(frags) : frags[i] = NoFrag
    THEN (CHOOSE i \in 1..Len(frags) :
              frags[i] = NoFrag /\ \A j \in (i + 1)..Len(frags) : frags[j] /= NoFrag) - 1
    ELSE -1

\* next((i for i, f in enumerate(self._rx_frags) if f is None), -1), from 0
FirstMissing(frags) ==
    IF \E i \in 1..Len(frags) : frags[i] = NoFrag
    THEN (CHOOSE i \in 1..Len(frags) :
              frags[i] = NoFrag /\ \A j \in 1..(i - 1) : frags[j] /= NoFrag) - 1
    ELSE -1

\* Schedule._rq_fragment(frag_cnt): _rx_frags after it, the payload of the
\* request it sends (fragment number and frag_cnt) and the request's callback
rq_fragment(frags, z, frag_cnt) ==
    LET rx == IF frag_cnt = 0 THEN <<NoFrag>> ELSE frags
        frag_idx == FirstMissing(rx)
    IN  [rx_frags |-> rx,
         rq |-> [idx |-> frag_idx + 1, cnt |-> frag_cnt],
         cb |-> Callback(z, "rq", frag_idx + 1)]

\* Schedule._tx_fragment(frag_idx): the callback of the request it sends
tx_fragment(z, frag_idx) == Callback(z, "tx", frag_idx + 1)

\* Schedule._release_lock
release_lock == zone_lock_idx' = NoZone

\* Schedule._obtain_lock, one turn of its loop: zone_lock_idx after it
obtain_lock(z) == IF zone_lock_idx = NoZone THEN z ELSE zone_lock_idx

\* zlib.decompress and struct.unpack of Schedule._frags_to_sched on the
\* fragments fetched: a schedule, zlib.error for what is no deflate stream,
\* struct.error for what does not decompress to whole 20-byte records
frags_to_sched_outcome(frags) ==
    CASE ctl_data = "schedule" -> [res |-> "schedule", err |-> ""]
      [] ctl_data = "not deflate" -> [res |-> "", err |-> "zlib.error"]
      [] OTHER -> [res |-> "", err |-> "struct.error"]

\* Schedule.schedule (property): what is returned or raised, and _schedule
\* after it
schedule(z) ==
    IF ~schedule_done[z] THEN [res |-> "None", err |-> "", obj |-> schedule_obj[z]]
    ELSE IF rx_frags[z] = <<>>
    THEN [res |-> "", err |-> "TypeError", obj |-> schedule_obj[z]]
    ELSE IF \E i \in 1..Len(rx_frags[z]) : rx_frags[z][i] = NoFrag
    THEN [res |-> "None", err |-> "", obj |-> schedule_obj[z]]
    ELSE IF schedule_obj[z] /= "None"
    THEN [res |-> schedule_obj[z], err |-> "", obj |-> schedule_obj[z]]
    ELSE LET d == frags_to_sched_outcome(rx_frags[z])
         IN  IF d.err = "zlib.error" THEN [res |-> "None", err |-> "", obj |-> "None"]
             ELSE IF d.err /= "" THEN [res |-> "", err |-> d.err, obj |-> schedule_obj[z]]
             ELSE [res |-> d.res, err |-> "", obj |-> d.res]

\* return self.schedule, at the end of get_schedule
return_schedule(t) ==
    LET r == schedule(task[t].zone)
    IN  /\ task' = [task EXCEPT ![t].pc = IF r.err = "" THEN "returned" ELSE "raised",
                                ![t].res = IF r.err = "" THEN r.res ELSE r.err]
        /\ schedule_obj' = [schedule_obj EXCEPT ![task[t].zone] = r.obj]

\* Schedule.get_schedule, from the lock to the first sleep or to the return
get_schedule(t) ==
    LET z == task[t].zone
        done == IF task[t].force THEN FALSE ELSE schedule_done[z]
    IN  IF ~done
        THEN LET r == rq_fragment(rx_frags[z], z, 0)
             IN  /\ zone_lock_idx' = obtain_lock(z)
                 /\ schedule_done' = [schedule_done EXCEPT ![z] = done]
                 /\ rx_frags' = [rx_frags EXCEPT ![z] = r.rx_frags]
                 /\ rq_sent' = [rq_sent EXCEPT ![z] = Append(@, r.rq)]
                 /\ sched_cbs' = sched_cbs \cup {r.cb}
                 /\ task' = [task EXCEPT ![t].pc = "wait"]
                 /\ UNCHANGED <<tx_frags, schedule_obj>>
        ELSE /\ release_lock
             /\ return_schedule(t)
             /\ UNCHANGED <<schedule_done, rx_frags, rq_sent, tx_frags, sched_cbs>>

\* Schedule.set_schedule, from the lock to the first sleep; _sched_to_frags
\* raises for a schedule that is not of the expected form (frags = 0)
set_schedule(t) ==
    LET z == task[t].zone
    IN  /\ zone_lock_idx' = obtain_lock(z)
        /\ schedule_done' = [schedule_done EXCEPT ![z] = FALSE]
        /\ IF task[t].frags = 0
           THEN /\ task' = [task EXCEPT ![t].pc = "raised", ![t].res = "KeyError"]
                /\ UNCHANGED <<rx_frags, rq_sent, tx_frags, sched_cbs, schedule_obj>>
           ELSE /\ tx_frags' = [tx_frags EXCEPT ![z] = task[t].frags]
                /\ sched_cbs' = sched_cbs \cup {tx_fragment(z, 0)}
                /\ task' = [task EXCEPT ![t].pc = "wait"]
                /\ UNCHANGED <<rx_frags, rq_sent, schedule_obj>>

\* a task is created to run get_schedule(force_refresh) or set_schedule(schedule)
\* of the Schedule of zone z
Call(t, z, op, force, frags) ==
    /\ task[t].pc = "idle"
    /\ \A u \in Tasks : u < t => task[u].pc /= "idle"
    /\ task' = [task EXCEPT ![t] =
                   [pc |-> "lock", zone |-> z, op |-> op, force |-> force, frags |-> frags,
                    res |-> ""]]
    /\ UNCHANGED <<zone_lock_idx, schedule_done, rx_frags, rq_sent, tx_frags, sched_cbs,
                   schedule_obj, kenv>>
    /\ UNCHANGED <<hvars, qvars, svars, fvars, pvars>>

\* the task runs a turn of _obtain_lock's loop: it goes on if the lock is its
\* zone's, and sleeps again if it is not
TryLock(t) ==
    /\ task[t].pc = "lock"
    /\ obtain_lock(task[t].zone) = task[t].zone
    /\ IF task[t].op = "get" THEN get_schedule(t) ELSE set_schedule(t)
    /\ UNCHANGED kenv
    /\ UNCHANGED <<hvars, qvars, svars, fvars, pvars>>

\* the task wakes in the loop that waits for _schedule_done: the long timeout
\* may have passed (ExpiredCallbackError); if not, and _schedule_done is set,
\* get_schedule returns self.schedule and set_schedule returns
Poll(t, timeout) ==
    /\ task[t].pc = "wait"
    /\ timeout \/ schedule_done[task[t].zone]
    /\ release_lock
    /\ IF timeout
       THEN /\ task' = [task EXCEPT ![t].pc = "raised", ![t].res = "ExpiredCallbackError"]
            /\ UNCHANGED schedule_obj
       ELSE IF task[t].op = "get" THEN return_schedule(t)
       ELSE /\ task' = [task EXCEPT ![t].pc = "returned", ![t].res = "None"]
            /\ UNCHANGED schedule_obj
    /\ UNCHANGED <<schedule_done, rx_frags, rq_sent, tx_frags, sched_cbs, kenv>>
    /\ UNCHANGED <<hvars, qvars, svars, fvars, pvars>>

\* the transport gives the RP of fragment cb.idx, of ctl_frags fragments, to
\* rq_callback
RqReply(cb) ==
    /\ cb \in sched_cbs /\ cb.kind = "rq"
    /\ cb.idx <= ctl_frags
    /\ LET z == cb.zone
           rx0 == IF ctl_frags /= Len(rx_frags[z])
                  THEN [i \in 1..ctl_frags |-> NoFrag] ELSE rx_frags[z]
           rx1 == [rx0 EXCEPT ![cb.idx] = cb.idx]
       IN  IF \E i \in 1..Len(rx1) : rx1[i] = NoFrag
           THEN LET r == rq_fragment(rx1, z, ctl_frags)
                IN  /\ rx_frags' = [rx_frags EXCEPT ![z] = r.rx_frags]
                    /\ rq_sent' = [rq_sent EXCEPT ![z] = Append(@, r.rq)]
                    /\ sched_cbs' = (sched_cbs \ {cb}) \cup {r.cb}
                    /\ UNCHANGED schedule_done
           ELSE /\ rx_frags' = [rx_frags EXCEPT ![z] = rx1]
                /\ sched_cbs' = sched_cbs \ {cb}
                /\ schedule_done' = [schedule_done EXCEPT ![z] = TRUE]
                /\ UNCHANGED rq_sent
    /\ UNCHANGED <<zone_lock_idx, tx_frags, task, schedule_obj, kenv>>
    /\ UNCHANGED <<hvars, qvars, svars, fvars, pvars>>

\* the transport gives the reply to the W of fragment cb.idx to tx_callback
TxReply(cb) ==
    /\ cb \in sched_cbs /\ cb.kind = "tx"
    /\ cb.idx <= tx_frags[cb.zone]
    /\ IF cb.idx < tx_frags[cb.zone]
       THEN /\ sched_cbs' = (sched_cbs \ {cb}) \cup {tx_fragment(cb.zone, cb.idx)}
            /\ UNCHANGED schedule_done
       ELSE /\ sched_cbs' = sched_cbs \ {cb}
            /\ schedule_done' = [schedule_done EXCEPT ![cb.zone] = TRUE]
    /\ UNCHANGED <<zone_lock_idx, rx_frags, rq_sent, tx_frags, task, schedule_obj, kenv>>
    /\ UNCHANGED <<hvars, qvars, svars, fvars, pvars>>

\* the callback expires: the transport calls it with None; rq_callback sets
\* _schedule_done, tx_callback raises AttributeError on msg.payload
Expire(cb) ==
    /\ cb \in sched_cbs
    /\ sched_cbs' = sched_cbs \ {cb}
    /\ schedule_done' = IF cb.kind = "rq"
                        THEN [schedule_done EXCEPT ![cb.zone] = TRUE]
                        ELSE schedule_done
    /\ UNCHANGED <<zone_lock_idx, rx_frags, rq_sent, tx_frags, task, schedule_obj, kenv>>
    /\ UNCHANGED <<hvars, qvars, svars, fvars, pvars>>

AllCallbacks ==
    {Callback(z, k, n) : z \in ZoneIdx, k \in {"rq", "tx"}, n \in 1..MaxFrags}

InitSched ==
    /\ HdrIdle /\ QueueIdle /\ SysIdle /\ FaultIdle /\ PureIdle
    /\ zone_lock_idx = NoZone
    /\ schedule_done = [z \in ZoneIdx |-> FALSE]
    /\ rx_frags = [z \in ZoneIdx |-> <<>>]
    /\ rq_sent = [z \in ZoneIdx |-> <<>>]
    /\ tx_frags = [z \in ZoneIdx |-> 0]
    /\ task = [t \in Tasks |-> NoTask]
    /\ sched_cbs = {}
    /\ schedule_obj = [z \in ZoneIdx |-> "None"]
    /\ ctl_frags \in 1..MaxFrags
    /\ ctl_data \in {"schedule", "not deflate", "not records"}

NextSched ==
    \/ \E t \in Tasks, z \in ZoneIdx, force \in BOOLEAN : Call(t, z, "get", force, 0)
    \/ \E t \in Tasks, z \in ZoneIdx, n \in 0..MaxFrags : Call(t, z, "set", FALSE, n)
    \/ \E t \in Tasks : TryLock(t)
    \/ \E t \in Tasks, timeout \in BOOLEAN : Poll(t, timeout)
    \/ \E cb \in AllCallbacks : RqReply(cb)
    \/ \E cb \in AllCallbacks : TxReply(cb)
    \/ \E cb \in AllCallbacks : Expire(cb)

SpecSched == InitSched /\ [][NextSched]_vars

(***************************************************************************)
(* SpecFetch: one call of get_schedule alone, every request of which the   *)
(* controller answers before its callback expires                          *)
(***************************************************************************)
NextFetch ==
    \/ \E z \in ZoneIdx, force \in BOOLEAN : Call(1, z, "get", force, 0)
    \/ TryLock(1)
    \/ \E timeout \in BOOLEAN : Poll(1, timeout)
    \/ \E cb \in AllCallbacks : RqReply(cb)

SpecFetch == InitSched /\ [][NextFetch]_vars

(***************************************************************************)
(* FaultLog (command.py): get_fault_log of one controller, the callbacks   *)
(* it leaves with the transport, and the controller's answers              *)
(***************************************************************************)
Runs == 1..MaxRuns

\* self._limit = 11
FaultLog_limit == 11

HexChar(n) ==
    IF n < 10 THEN DigitChar(n)
    ELSE CASE n = 10 -> "A" [] n = 11 -> "B" [] n = 12 -> "C"
           [] n = 13 -> "D" [] n = 14 -> "E" [] OTHER -> "F"

HexVal(c) == CHOOSE n \in 0..15 : HexChar(n) = c

\* f"{log_idx:06X}", for a log_idx below 256
Hex6(n) == <<"0", "0", "0", "0", HexChar(n \div 16), HexChar(n % 16)>>

\* the payload of an RP 0418 with log entry log_idx: the index is its third
\* byte, and a fault follows it
EntryPayload(log_idx) ==
    <<"0", "0", "4", "0", HexChar(log_idx \div 16), HexChar(log_idx % 16)>>
        \o SubSeq(NULL_RP_0418, 7, Len(NULL_RP_0418))

\* the parser of 0418 (parsers.py): msg.payload["log_idx"], and whether the
\* payload has anything else (it has not when it is the null RP)
payload_log_idx(payload) == HexVal(payload[5]) * 16 + HexVal(payload[6])
payload_is_null(payload) == payload = NULL_RP_0418

\* Command("RQ", self._ctl.id, "0418", f"{log_idx:06X}", ...).rx_header
RqHeader(log_idx) ==
    pkt_header(Pkt(Command_init(V_RQ, HGI_ID, CTL_ID, C_0418, Hex6(log_idx))), TRUE)

\* the header of the controller's RP 0418 with this payload, as it arrives
MsgHeader(payload) ==
    pkt_header(Pkt(Command_init(V_RP, CTL_ID, HGI_ID, C_0418, payload)), FALSE)

\* null_header = "|".join(("RP", self.id, "0418"))
null_header == Join2(Join2(V_RP, CTL_ID), C_0418)

\* the state the callbacks work on, as one record; cur is the call of
\* get_fault_log that the request being made descends from
FaultState ==
    [fault_log |-> fault_log, done |-> fault_log_done, callbacks |-> callbacks,
     inv |-> f_inv, rq |-> f_rq, sent |-> f_sent, cur |-> 0]

\* a plausible slip: every request registers its callback for the null header
rq_log_entry_mut(F, log_idx) ==
    LET func == Len(F.inv) + 1
        cbs1 == {e \in F.callbacks : e.header /= null_header} \cup
                    {[header |-> null_header, func |-> func, daemon |-> TRUE]}
        h == RqHeader(log_idx)
        cbs2 == {e \in cbs1 : e.header /= h} \cup
                    {[header |-> h, func |-> func, daemon |-> FALSE]}
    IN  [F EXCEPT !.callbacks = cbs2,
                  !.inv = Append(@, [msg |-> 0, none |-> 0, run |-> F.cur]),
                  !.rq = @ \cup {[log_idx |-> log_idx, func |-> func]},
                  !.sent = @ \cup {log_idx}]

\* FaultLog._rq_log_entry(log_idx): a new rq_callback, the daemon entry for
\* the null header if there is none, and the RQ, whose callback the transport
\* registers under its rx header
rq_log_entry(F, log_idx) ==
    LET func == Len(F.inv) + 1
        cbs1 == IF \E e \in F.callbacks : e.header = null_header
                THEN F.callbacks
                ELSE F.callbacks \cup
                         {[header |-> null_header, func |-> func, daemon |-> TRUE]}
        h == RqHeader(log_idx)
        cbs2 == {e \in cbs1 : e.header /= h} \cup
                    {[header |-> h, func |-> func, daemon |-> FALSE]}
    IN  [F EXCEPT !.callbacks = cbs2,
                  !.inv = Append(@, [msg |-> 0, none |-> 0, run |-> F.cur]),
                  !.rq = @ \cup {[log_idx |-> log_idx, func |-> func]},
                  !.sent = @ \cup {log_idx}]

\* a plausible slip: the null response is stored and the next entry requested
rq_callback_mut(F, msg) ==
    IF msg = None THEN [F EXCEPT !.done = TRUE]
    ELSE LET log_idx == payload_log_idx(msg)
             F1 == [F EXCEPT !.fault_log = @ \cup {log_idx}]
         IN  IF log_idx < FaultLog_limit
             THEN rq_log_entry(F1, log_idx + 1)
             ELSE [F1 EXCEPT !.done = TRUE]

\* a plausible slip: the limit is tested after the next request, not before
rq_callback_mutlimit(F, msg) ==
    IF msg = None THEN [F EXCEPT !.done = TRUE]
    ELSE LET log_idx == payload_log_idx(msg)
             F1 == [F EXCEPT !.fault_log = @ \cup {log_idx}]
         IN  IF payload_is_null(msg) THEN [F EXCEPT !.done = TRUE]
             ELSE IF log_idx <= FaultLog_limit
             THEN rq_log_entry(F1, log_idx + 1)
             ELSE [F1 EXCEPT !.done = TRUE]

\* FaultLog._rq_log_entry.rq_callback(msg); msg is the payload, or None
rq_callback(F, msg) ==
    IF msg = None THEN [F EXCEPT !.done = TRUE]
    ELSE LET log_idx == payload_log_idx(msg)
             F1 == [F EXCEPT !.fault_log = @ \cup {log_idx}]
         IN  IF payload_is_null(msg) THEN [F EXCEPT !.done = TRUE]
             ELSE IF log_idx < FaultLog_limit
             THEN rq_log_entry(F1, log_idx + 1)
             ELSE [F1 EXCEPT !.done = TRUE]

\* the transport calls the callback of entry e, with a message or with None,
\* and drops the entry unless it is a daemon
invoke(F, e, msg) ==
    LET F1 == [F EXCEPT !.inv[e.func] =
                   IF msg = None THEN [@ EXCEPT !.none = @ + 1]
                                 ELSE [@ EXCEPT !.msg = @ + 1]]
        F2 == rq_callback(F1, msg)
    IN  IF e.daemon THEN F2 ELSE [F2 EXCEPT !.callbacks = @ \ {e}]

\* the transport's inbound dispatch of an RP 0418 with this payload
on_message(F, payload) ==
    LET hit == {e \in F.callbacks : e.header = MsgHeader(payload)}
    IN  IF hit = {} THEN F ELSE invoke(F, CHOOSE e \in hit : TRUE, payload)

FaultStore(F) ==
    /\ fault_log' = F.fault_log
    /\ fault_log_done' = F.done
    /\ callbacks' = F.callbacks
    /\ f_inv' = F.inv
    /\ f_rq' = F.rq
    /\ f_sent' = F.sent

\* FaultLog.get_fault_log, to its first sleep
get_fault_log(r) ==
    /\ f_run[r].pc = "idle"
    /\ \A q \in Runs : q < r => f_run[q].pc /= "idle"
    /\ FaultStore(rq_log_entry([FaultState EXCEPT !.fault_log = {}, !.done = FALSE, !.cur = r], 0))
    /\ f_run' = [f_run EXCEPT ![r].pc = "wait"]
    /\ f_last' = "call"
    /\ UNCHANGED ctl_entries
    /\ UNCHANGED <<hvars, qvars, svars, kvars, pvars>>

\* FaultLog.get_fault_log wakes in its loop: it raises after the long timeout,
\* and returns FaultLog.fault_log once _fault_log_done is set
PollFaultLog(r, timeout) ==
    /\ f_run[r].pc = "wait"
    /\ timeout \/ fault_log_done
    /\ f_run' = [f_run EXCEPT ![r] = IF timeout THEN [pc |-> "raised", res |-> {}]
                                     ELSE [pc |-> "returned", res |-> fault_log]]
    /\ f_last' = "poll"
    /\ UNCHANGED <<fault_log, fault_log_done, callbacks, f_inv, f_rq, f_sent, ctl_entries>>
    /\ UNCHANGED <<hvars, qvars, svars, kvars, pvars>>

\* the controller answers an RQ 0418: with the entry, or with the null RP when
\* it has no entry of that index
Reply(rq) ==
    /\ rq \in f_rq
    /\ LET payload == IF rq.log_idx < ctl_entries
                      THEN EntryPayload(rq.log_idx) ELSE NULL_RP_0418
           F == [FaultState EXCEPT !.rq = @ \ {rq}, !.cur = f_inv[rq.func].run]
       IN  /\ FaultStore(on_message(F, payload))
           /\ f_last' = IF payload_is_null(payload) THEN "RP_null" ELSE "RP"
    /\ UNCHANGED <<f_run, ctl_entries>>
    /\ UNCHANGED <<hvars, qvars, svars, kvars, pvars>>

\* the callback of a request expires: the transport calls it with None
ExpireCallback(e) ==
    /\ e \in callbacks
    /\ ~e.daemon
    /\ FaultStore(invoke([FaultState EXCEPT !.cur = f_inv[e.func].run], e, None))
    /\ f_last' = "expired"
    /\ UNCHANGED <<f_run, ctl_entries>>
    /\ UNCHANGED <<hvars, qvars, svars, kvars, pvars>>

InitFault ==
    /\ HdrIdle /\ QueueIdle /\ SysIdle /\ SchedIdle /\ PureIdle
    /\ fault_log = {}
    /\ fault_log_done = FALSE
    /\ callbacks = {}
    /\ f_inv = <<>>
    /\ f_rq = {}
    /\ f_sent = {}
    /\ f_run = [r \in Runs |-> [pc |-> "idle", res |-> {}]]
    /\ ctl_entries \in 0..MaxEntries
    /\ f_last = "none"

NextFault ==
    \/ \E r \in Runs : get_fault_log(r)
    \/ \E r \in Runs, timeout \in BOOLEAN : PollFaultLog(r, timeout)
    \/ \E rq \in f_rq : Reply(rq)
    \/ \E e \in callbacks : ExpireCallback(e)

SpecFault == InitFault /\ [][NextFault]_vars

(***************************************************************************)
(* SpecFaultRun: one call of get_fault_log alone, on a controller whose    *)
(* fault log may be longer than the driver's limit                         *)
(***************************************************************************)
\* bound: the entries of a long fault log (more than FaultLog_limit + 1)
LongLog == 13

InitFaultRun ==
    /\ HdrIdle /\ QueueIdle /\ SysIdle /\ SchedIdle /\ PureIdle
    /\ fault_log = {}
    /\ fault_log_done = FALSE
    /\ callbacks = {}
    /\ f_inv = <<>>
    /\ f_rq = {}
    /\ f_sent = {}
    /\ f_run = [r \in Runs |-> [pc |-> "idle", res |-> {}]]
    /\ ctl_entries \in {0, 1, 2, LongLog}
    /\ f_last = "none"

NextFaultRun ==
    \/ get_fault_log(1)
    \/ \E timeout \in BOOLEAN : PollFaultLog(1, timeout)
    \/ \E rq \in f_rq : Reply(rq)
    \/ \E e \in callbacks : ExpireCallback(e)

SpecFaultRun == InitFaultRun /\ [][NextFaultRun]_vars

(***************************************************************************)
(* Claims about the outbound order (checked under SpecQ)                   *)
(***************************************************************************)
\* the command transmitted last
LastTx == tx_log[Len(tx_log)]

\* where command i stood in the queue the last transmission was popped from
PosInTxFrom(i) == CHOOSE k \in 1..Len(tx_from) : tx_from[k] = i

\* C1: of the commands waiting in the outbound queue, one with a numerically
\* lower priority value is transmitted before one with a higher value, whatever
\* the order they were enqueued in; e.g. enqueuing A(DEFAULT), B(HIGH), C(HIGH)
\* transmits B, C, A.
C1_LowerPriorityValueFirst ==
    tx_log /= <<>> =>
        /\ \A k \in 1..Len(tx_from) :
               q_cmds[tx_from[k]].priority >= q_cmds[LastTx].priority
        /\ ( /\ Len(q_cmds) = 3
             /\ q_cmds[1].priority = Priority_DEFAULT
             /\ q_cmds[2].priority = Priority_HIGH
             /\ q_cmds[3].priority = Priority_HIGH )
           => /\ tx_from = <<1, 2, 3>> => LastTx = 2
              /\ tx_from = <<1, 3>> => LastTx = 3

C1_Witness ==
    /\ Len(q_cmds) = 3
    /\ q_cmds[1].priority = Priority_DEFAULT
    /\ q_cmds[2].priority = Priority_HIGH
    /\ q_cmds[3].priority = Priority_HIGH
    /\ tx_from = <<1, 2, 3>>
    /\ tx_log = <<2>>

\* C2 as stated: of two waiting commands with equal priority the one enqueued
\* first is transmitted first, for every order of construction and enqueuing.
C2_Original_EnqueueOrder ==
    tx_log /= <<>> =>
        \A k \in 1..Len(tx_from) :
            q_cmds[tx_from[k]].priority = q_cmds[LastTx].priority
                => PosInTxFrom(LastTx) <= k

\* C2 as amended: of two waiting commands with equal priority the one with the
\* earlier tiebreaker, that is the one constructed first, is transmitted first;
\* that is the one enqueued first when they were enqueued in the order they were
\* constructed.
C2_EarlierTiebreakerFirst ==
    tx_log /= <<>> =>
        /\ \A k \in 1..Len(tx_from) :
               q_cmds[tx_from[k]].priority = q_cmds[LastTx].priority
                   => q_cmds[tx_from[k]].dtm >= q_cmds[LastTx].dtm
        /\ \A k \in 1..Len(tx_from) :
               ( /\ q_cmds[tx_from[k]].priority = q_cmds[LastTx].priority
                 /\ \A a, b \in 1..Len(tx_from) :
                        a < b => q_cmds[tx_from[a]].dtm < q_cmds[tx_from[b]].dtm )
               => PosInTxFrom(LastTx) <= k

\* the later-constructed command was enqueued first, and the earlier-constructed
\* one was transmitted while it waited
C2_Witness ==
    /\ tx_log = <<1>>
    /\ tx_from = <<2, 1>>
    /\ q_cmds[1].priority = q_cmds[2].priority
    /\ q_cmds[1].dtm < q_cmds[2].dtm

(***************************************************************************)
(* Claims about the headers (checked under SpecHdr)                        *)
(***************************************************************************)
\* the verb of the response header as the claim gives it: RQ becomes RP and W
\* becomes I (an I stays an I; the code also answers an RP with an I)
ClaimRxVerb(v) == IF v = V_RQ THEN V_RP ELSE V_I

\* C4: for every Command whose code is not 0001 or 7FFF, rx_header is tx_header
\* with only the verb rewritten (RQ to RP, W to I): same peer address, code and
\* context suffix; for 0001 and 7FFF rx_header is None while tx_header is defined.
C4_RxIsTxWithVerbRewritten ==
    h_pc = "rx" =>
        IF cmd.code \in {C_0001, C_7FFF}
        THEN h_rx = None /\ h_tx /= None
        ELSE /\ h_rx /= None
             /\ Slice(h_tx, 0, 2) = cmd.verb
             /\ h_rx = ClaimRxVerb(cmd.verb) \o SliceFrom(h_tx, 2)

C4_Witness ==
    /\ h_pc = "rx"
    /\ cmd.verb = V_W
    /\ cmd.code = C_0404
    /\ h_rx /= None
    /\ h_rx /= h_tx

\* the peer address as the claim gives it: the destination when the source is
\* the gateway (type 18), the source otherwise
ClaimPeer(c) == IF AddrType(c.from_addr) = <<"1", "8">> THEN c.dest_addr ELSE c.from_addr

\* the context suffix as the claim gives it, from the command's own fields
ClaimContext(c) ==
    CASE c.code \in {C_0005, C_000C} -> <<"|">> \o Slice(c.payload, 0, 4)
      [] c.code = C_0404 -> <<"|">> \o Slice(c.payload, 0, 2) \o Slice(c.payload, 10, 12)
      [] c.code = C_0418 /\ c.payload = NULL_RP_0418 -> <<>>
      [] c.code = C_0418 /\ c.payload /= NULL_RP_0418 -> <<"|">> \o Slice(c.payload, 4, 6)
      [] c.code \notin {C_0005, C_000C, C_0404, C_0418} /\ c.code \in CODES_SANS_DOMAIN_ID
            -> <<>>
      [] OTHER -> <<"|">> \o Slice(c.payload, 0, 2)

ClaimHeader(verb, c) == verb \o <<"|">> \o ClaimPeer(c) \o <<"|">> \o c.code \o ClaimContext(c)

\* C5: the correlation header is verb|peer_addr|code followed by the code-specific
\* context (0005/000C: payload[0:4]; 0404: payload[0:2]+payload[10:12]; 0418:
\* nothing for the null-RP payload, else payload[4:6]; CODES_SANS_DOMAIN_ID:
\* nothing; otherwise payload[0:2]); e.g. W to 01:145038, code 2309, payload
\* 0107D0 has tx header ' W|01:145038|2309|01' and rx header ' I|01:145038|2309|01'.
C5_HeaderFormat ==
    /\ h_pc \in {"tx", "rx"} => h_tx = ClaimHeader(cmd.verb, cmd)
    /\ (h_pc = "rx" /\ h_rx /= None) => h_rx = ClaimHeader(ClaimRxVerb(cmd.verb), cmd)
    /\ (h_pc = "rx" /\ cmd = Command_init(V_W, HGI_ID, CTL_ID, C_2309, P_0107D0)) =>
           /\ Cat(h_tx) = " W|01:145038|2309|01"
           /\ Cat(h_rx) = " I|01:145038|2309|01"

C5_Witness ==
    /\ h_pc = "rx"
    /\ cmd = Command_init(V_RQ, HGI_ID, CTL_ID, C_0404, P_0404_RQ)
    /\ Cat(h_tx) = "RQ|01:145038|0404|0102"
    /\ Cat(h_rx) = "RP|01:145038|0404|0102"

(***************************************************************************)
(* Claims about the topology (SpecSys, SpecZone)                           *)
(***************************************************************************)
\* C8: once boiler_control is a device, no message handled by update() and no
\* call of the setter makes it another device; a call of the setter with
\* another device raises and leaves boiler_control as it was.
C8_HeatRelayMonotone ==
    [][/\ s_bc /= NoDev => s_bc' = s_bc
       /\ (s_op'.name = "boiler_control" /\ s_bc /= NoDev /\ s_op'.dev /= s_bc)
              => (s_err' \in {"LookupError", "TypeError"} /\ s_bc' = s_bc)]_vars

\* the relay is the TPI relay and the setter has just refused the OTB
C8_Witness ==
    /\ s_bc = TPI
    /\ s_op = [name |-> "boiler_control", dev |-> OTB]
    /\ s_err = "LookupError"

\* C9: the 30C9 array just handled, when the matching ran on it (there was an
\* array before it, no later than a sync cycle ago)
ClaimArrayMatched ==
    /\ s_op'.name = "update_array"
    /\ s_prev30c9.some
    /\ s_secs /= NoSecs
    /\ s_prev30c9'.dtm <= s_prev30c9.dtm + s_secs

\* the entries of zone z in the array that are not in the array before
ClaimChangedOf(z) ==
    {e \in {s_prev30c9'.arr[k] : k \in 1..Len(s_prev30c9'.arr)}
               \ {s_prev30c9.arr[k] : k \in 1..Len(s_prev30c9.arr)} : e.zone_idx = z}

\* zone z had no sensor, and its changed temperature t is non-null and not the
\* changed temperature of another zone
ClaimTestableZone(z, t) ==
    /\ s_zsensor[z] = NoDev
    /\ t /= NoTemp
    /\ \E e \in ClaimChangedOf(z) : e.temperature = t
    /\ \A y \in ZoneIdx \ {z} : \A e \in ClaimChangedOf(y) : e.temperature /= t

\* the testable sensors with temperature t whose zone is z or unknown
ClaimCandidates(z, t) ==
    {d \in Devices :
        /\ d_ctl[d] \in {CTL, NoDev}
        /\ DevType(d) \in DEVICE_HAS_ZONE_SENSOR
        /\ d_30c9[d].temp = t
        /\ d_30c9[d].dtm > s_prev30c9.dtm
        /\ d_zone[d] \in {z, NoZone}}

\* C9: when the matching runs on a 30C9 array, a sensorless zone whose changed
\* temperature is non-null and unique among the changed zones is bound to the
\* one testable sensor with that temperature (zone this one or unknown), and
\* that sensor's controller becomes this system; with no such sensor or with
\* several the matching binds nothing to the zone (it has no sensor afterwards,
\* or the controller itself, which only the exclusion step binds, and only
\* when no sensor matched).
C9_ZoneSensorMatching ==
    [][ClaimArrayMatched =>
         \A z \in ZoneIdx : \A t \in Temps \cup {NoTemp} :
            ClaimTestableZone(z, t) =>
               LET c == ClaimCandidates(z, t)
               IN  /\ Cardinality(c) = 1 =>
                        \A d \in c : /\ s_zsensor'[z] = d
                                     /\ d_ctl'[d] = CTL
                                     /\ d_zone'[d] = z
                   /\ Cardinality(c) > 1 => s_zsensor'[z] = NoDev
                   /\ Cardinality(c) = 0 => s_zsensor'[z] \in {NoDev, CTL}]_vars

\* zone 00 has just been bound to the thermostat by a 30C9 array, while zone 01
\* is still without a sensor
C9_Witness ==
    /\ s_op.name = "update_array"
    /\ s_zsensor["00"] = SEN1
    /\ s_zsensor["01"] = NoDev
    /\ d_ctl[SEN1] = CTL
    /\ d_zone[SEN1] = "00"
    /\ s_prev30c9.dtm = 1

(***************************************************************************)
(* Claims about the schedule lock (SpecSched)                              *)
(***************************************************************************)
\* a schedule transaction is in progress: the call is past _obtain_lock and
\* has not ended
InProgress(t) == task[t].pc = "wait"

\* C6: at any time at most one get_schedule or set_schedule of the system is
\* in progress, and it is of the zone that zone_lock_idx names: no call of
\* another zone is past _obtain_lock, and no second call runs along with the
\* holder's.
C6_OneTransactionAtATime ==
    /\ \A t \in Tasks : InProgress(t) => zone_lock_idx = task[t].zone
    /\ \A t, u \in Tasks : (InProgress(t) /\ InProgress(u)) => t = u

\* C7: a call of get_schedule or set_schedule that has taken the lock leaves
\* zone_lock_idx as None when it ends, however it ends (return or exception).
C7_LockReleasedOnEveryExit ==
    [][\A t \in Tasks :
          (/\ task[t].pc \in {"lock", "wait"}
           /\ task'[t].pc \in {"returned", "raised"})
              => zone_lock_idx' = NoZone]_vars

C10_NullRpEndsTheLog ==
    ctl_entries = 0 =>
        /\ f_last = "RP_null" => fault_log_done
        /\ \A r \in Runs : f_run[r].pc = "returned" => f_run[r].res = {}
        /\ f_sent \subseteq {0}

\* the first run has returned the empty map after the null RP reached its
\* callback, which nothing else has called
C10_Witness ==
    /\ ctl_entries = 0
    /\ f_run[1] = [pc |-> "returned", res |-> {}]
    /\ f_run[2].pc = "idle"
    /\ f_inv = <<[msg |-> 1, none |-> 0, run |-> 1]>>
    /\ f_sent = {0}

\* C11: a run of get_fault_log requests log_idx 0 first; it requests log_idx
\* n+1 only in handling the RP for log_idx n, with that entry stored under n;
\* it never has two requests unanswered; and it requests no log_idx above the
\* limit of 11.
C11_SequentialPull ==
    [][/\ (f_sent = {} /\ f_sent' /= {}) => (f_sent' = {0} /\ f_last' = "call")
       /\ \A n \in 0..(FaultLog_limit + 1) :
             (n + 1 \in f_sent' \ f_sent)
                 => /\ f_last' = "RP"
                    /\ \E rq \in f_rq : rq.log_idx = n
                    /\ n \in fault_log'
                    /\ n \in f_sent
       /\ Cardinality(f_rq') <= 1
       /\ f_sent' \subseteq 0..FaultLog_limit]_vars

\* the run has pulled a long log up to the limit, entry by entry, and returned it
C11_Witness ==
    /\ ctl_entries > FaultLog_limit + 1
    /\ f_sent = 0..FaultLog_limit
    /\ f_rq = {}
    /\ f_run[1] = [pc |-> "returned", res |-> 0..FaultLog_limit]

(***************************************************************************)
(* Claims about the schedule fetch (SpecFetch)                             *)
(***************************************************************************)
\* the slots of _rx_frags of zone z that are still empty
ClaimMissing(z) == {i \in 1..Len(rx_frags[z]) : rx_frags[z][i] = NoFrag}

\* C12: in a fetch of a schedule of N fragments whose requests are all
\* answered, every request is for the lowest slot still missing (the k-th for
\* fragment k); and once no request is unanswered, _rx_frags holds fragment i
\* in slot i-1 for every i of 1..N, the fetch is marked done, and exactly N
\* requests were sent.
C12_FetchAllFragments ==
    \A z \in ZoneIdx :
        /\ \A cb \in sched_cbs :
               (cb.zone = z /\ cb.kind = "rq")
                   => /\ cb.idx \in ClaimMissing(z)
                      /\ \A i \in ClaimMissing(z) : cb.idx <= i
                      /\ rq_sent[z][Len(rq_sent[z])].idx = cb.idx
        /\ \A k \in 1..Len(rq_sent[z]) : rq_sent[z][k].idx = k
        /\ (rq_sent[z] /= <<>> /\ ~\E cb \in sched_cbs : cb.zone = z)
               => /\ rx_frags[z] = [i \in 1..ctl_frags |-> i]
                  /\ schedule_done[z]
                  /\ Len(rq_sent[z]) = ctl_frags

\* a schedule of three fragments has been fetched with three requests, and
\* get_schedule has returned it
C12_Witness ==
    /\ ctl_frags = 3
    /\ rx_frags["01"] = <<1, 2, 3>>
    /\ rq_sent["01"] = <<[idx |-> 1, cnt |-> 0], [idx |-> 2, cnt |-> 3], [idx |-> 3, cnt |-> 3]>>
    /\ task[1].pc = "returned"
    /\ task[1].res = "schedule"

(***************************************************************************)
(* Claims about the discovery of the heat relay and of the DHW sensor      *)
(* (SpecSys)                                                               *)
(***************************************************************************)
\* the I 3B00 messages of the system's own controller
Claim3B00FromCtl ==
    {m \in SysMsgs(s_clock) : m.code = "3B00" /\ m.verb = " I" /\ m.src = CTL}

\* the message before is an I 3B00 of a type-13 device
ClaimPrevIsRelay(p) ==
    p /= NoMsg /\ p.code = "3B00" /\ p.verb = " I" /\ DevType(p.src) = "13"

MaxDays == 2
MaxSwitchpoints == 2

CodecZones == {<<"0", "1">>, <<"0", "A">>}
CodecDays == 0..2
CodecTimes == {<<"0", "6", ":", "3", "0">>, <<"2", "2", ":", "0", "0">>}
CodecSetpoints == {1950, 1990}

\* the floats x from 19.00 to 21.00 for which x * 100, in IEEE-754 doubles,
\* falls below the whole number: int() then gives one less
TruncatedBy100 ==
    {1906, 1908, 1915, 1924, 1931, 1933, 1940, 1949, 1956, 1958, 1965, 1974,
     1981, 1983, 1990, 1999, 2006, 2008, 2015, 2024, 2031, 2033, 2040}

\* int(setpoint[HEAT_SETPOINT] * 100)
int_setpoint_x100(x) == IF x \in TruncatedBy100 THEN x - 1 ELSE x

\* temp / 100: the float nearest to the quotient
temp_div_100(temp) == temp

\* Python's int(s) for a string of decimal digits
RECURSIVE int_dec(_)
int_dec(s) ==
    IF s = <<>> THEN 0
    ELSE 10 * int_dec(SubSeq(s, 1, Len(s) - 1))
         + (CHOOSE n \in 0..9 : DigitChar(n) = s[Len(s)])

\* Python's int(s, 16) for a string of hex digits
RECURSIVE int_hex(_)
int_hex(s) ==
    IF s = <<>> THEN 0
    ELSE 16 * int_hex(SubSeq(s, 1, Len(s) - 1)) + HexVal(s[Len(s)])

\* Python's "{:d}".format(n)
RECURSIVE fmt_d(_)
fmt_d(n) == IF n < 10 THEN <<DigitChar(n)>> ELSE fmt_d(n \div 10) \o <<DigitChar(n % 10)>>

\* Python's "{:02d}".format(n)
fmt_02d(n) == IF n < 10 THEN <<"0", DigitChar(n)>> ELSE fmt_d(n)

\* Python's "{:X}".format(n)
RECURSIVE fmt_X(_)
fmt_X(n) == IF n < 16 THEN <<HexChar(n)>> ELSE fmt_X(n \div 16) \o <<HexChar(n % 16)>>

\* Python's f"{n:02X}"
fmt_02X(n) == IF n < 16 THEN <<"0", HexChar(n)>> ELSE fmt_X(n)

\* struct.pack("<xxxxBxxxBxxxHxxHxx", zone_idx, day, time, temp): 20 bytes
struct_pack(s) ==
    <<0, 0, 0, 0, s[1], 0, 0, 0, s[2], 0, 0, 0,
      s[3] % 256, s[3] \div 256, 0, 0, s[4] % 256, s[4] \div 256, 0, 0>>

\* struct.unpack("<xxxxBxxxBxxxHxxHH", b) of 20 bytes: zone_idx, day, time, temp, _
struct_unpack(b) ==
    <<b[5], b[9], b[13] + 256 * b[14], b[17] + 256 * b[18], b[19] + 256 * b[20]>>

\* zlib: the bytes of a deflate stream are not computed; a stream is written
\* as the data it inflates to, under the compressor's settings
zlib_compress(raw) == [level |-> 9, wbits |-> 14, data |-> raw]
zlib_decompress(blob) == blob.data

RECURSIVE Flatten(_)
Flatten(ss) == IF ss = <<>> THEN <<>> ELSE Head(ss) \o Flatten(Tail(ss))

\* the records of a schedule, in order: one per switchpoint of each day
sched_records(sched) ==
    LET day_records(week_day) ==
            [i \in 1..Len(week_day.switchpoints) |->
                LET setpoint == week_day.switchpoints[i]
                IN  <<int_hex(sched.zone_idx),
                      week_day.day_of_week,
                      int_dec(Slice(setpoint.time_of_day, 0, 2)) * 60
                          + int_dec(SliceFrom(setpoint.time_of_day, 3)),
                      int_setpoint_x100(setpoint.heat_setpoint)>>]
    IN  Flatten([d \in 1..Len(sched.schedule) |-> day_records(sched.schedule[d])])

\* whether struct.pack takes the record
Packable(s) ==
    /\ s[1] \in 0..255 /\ s[2] \in 0..255
    /\ s[3] \in 0..65535 /\ s[4] \in 0..65535

\* Schedule._sched_to_frags(schedule): the fragments, here the one stream
\* they are cut from, or the error raised
sched_to_frags(sched) ==
    LET records == sched_records(sched)
    IN  IF \E i \in 1..Len(records) : ~Packable(records[i])
        THEN [err |-> "struct.error", val |-> EmptyStream]
        ELSE [err |-> "",
              val |-> zlib_compress(Flatten([i \in 1..Len(records) |-> struct_pack(records[i])]))]

\* the loop of _frags_to_sched over the records from the i-th on
RECURSIVE frags_loop(_, _, _)
frags_loop(raw, i, acc) ==
    IF i >= Len(raw) THEN acc
    ELSE IF Len(raw) < i + 20 THEN [acc EXCEPT !.err = "struct.error"]
    ELSE LET rec == struct_unpack(SubSeq(raw, i + 1, i + 20))
         IN       LET opened ==
                          IF rec[2] > acc.old_day
                          THEN [acc EXCEPT
                                   !.schedule = Append(@, [day_of_week |-> acc.old_day,
                                                           switchpoints |-> acc.switchpoints]),
                                   !.old_day = rec[2],
                                   !.switchpoints = <<>>]
                          ELSE acc
                  IN  frags_loop(raw, i + 20,
                          [opened EXCEPT
                              !.zone_idx = <<rec[1]>>,
                              !.switchpoints = Append(@,
                                  [time_of_day |-> fmt_02d(rec[3] \div 60) \o <<":">>
                                                       \o fmt_02d(rec[3] % 60),
                                   heat_setpoint |-> temp_div_100(rec[4])])])

\* Schedule._frags_to_sched(frags): the schedule, or the error raised
frags_to_sched(frags) ==
    LET raw == zlib_decompress(frags)
        done == frags_loop(raw, 0, [zone_idx |-> None, schedule |-> <<>>, old_day |-> 0,
                                    switchpoints |-> <<>>, err |-> ""])
    IN  IF done.err /= "" THEN [err |-> done.err, val |-> EmptySchedule]
        ELSE IF done.zone_idx = None THEN [err |-> "TypeError", val |-> EmptySchedule]
        ELSE [err |-> "",
              val |-> [zone_idx |-> fmt_02X(done.zone_idx[1]),
                       schedule |-> Append(done.schedule,
                                           [day_of_week |-> done.old_day,
                                            switchpoints |-> done.switchpoints])]]

\* the schedules of the model: up to MaxDays days in rising order, each with
\* one to MaxSwitchpoints switchpoints
CodecSwitchpoints ==
    UNION {[1..n -> [time_of_day : CodecTimes, heat_setpoint : CodecSetpoints]] :
               n \in 1..MaxSwitchpoints}

CodecWeeks ==
    {w \in UNION {[1..n -> [day_of_week : CodecDays, switchpoints : CodecSwitchpoints]] :
                      n \in 1..MaxDays} :
        \A i \in 1..(Len(w) - 1) : w[i].day_of_week < w[i + 1].day_of_week}

CodecSchedules == [zone_idx : CodecZones, schedule : CodecWeeks]

(***************************************************************************)
(* SpecCodec: a schedule is encoded, the fragments are decoded, and what   *)
(* came out is encoded again                                               *)
(***************************************************************************)
InitCodec ==
    /\ HdrIdle /\ QueueIdle /\ SysIdle /\ SchedIdle /\ FaultIdle /\ CtorIdle /\ FragIdle /\ PutIdle
    /\ c_sched \in CodecSchedules
    /\ c_frags = [err |-> NotCalled, val |-> EmptyStream]
    /\ c_out = [err |-> NotCalled, val |-> EmptySchedule]
    /\ c_again = [err |-> NotCalled, val |-> EmptyStream]

\* frags = Schedule._sched_to_frags(schedule)
Encode ==
    /\ c_frags.err = NotCalled
    /\ c_frags' = sched_to_frags(c_sched)
    /\ UNCHANGED <<c_sched, c_out, c_again>>
    /\ UNCHANGED <<hvars, qvars, svars, kvars, fvars, nvars, gvars, xvars>>

\* Schedule._frags_to_sched(frags)
Decode ==
    /\ c_frags.err = ""
    /\ c_out.err = NotCalled
    /\ c_out' = frags_to_sched(c_frags.val)
    /\ UNCHANGED <<c_sched, c_frags, c_again>>
    /\ UNCHANGED <<hvars, qvars, svars, kvars, fvars, nvars, gvars, xvars>>

\* Schedule._sched_to_frags of the schedule that was decoded
EncodeAgain ==
    /\ c_out.err = ""
    /\ c_again.err = NotCalled
    /\ c_again' = sched_to_frags(c_out.val)
    /\ UNCHANGED <<c_sched, c_frags, c_out>>
    /\ UNCHANGED <<hvars, qvars, svars, kvars, fvars, nvars, gvars, xvars>>

NextCodec == Encode \/ Decode \/ EncodeAgain

SpecCodec == InitCodec /\ [][NextCodec]_vars

(***************************************************************************)
(* Claims about the schedule codec (SpecCodec)                             *)
(***************************************************************************)
\* C14: a schedule that is encoded and then decoded comes back the same, here
\* for the schedules that have day 0 first; the fragments of a decoded
\* schedule are the fragments it was decoded from; and the records
\* (zone_idx, day_of_week, minute_of_day, setpoint) survive.
C14_CodecRoundTrip ==
    /\ (c_out.err /= NotCalled /\ c_sched.schedule[1].day_of_week = 0)
           => /\ c_out = [err |-> "", val |-> c_sched]
              /\ sched_records(c_out.val) = sched_records(c_sched)
    /\ c_again.err /= NotCalled => c_again = c_frags

(***************************************************************************)
(* Command construction (command.py: Command.__init__, Command.is_valid,   *)
(* Command.zone_mode)                                                      *)
(***************************************************************************)
C_2349 == <<"2", "3", "4", "9">>

\* the payload length Command.is_valid names
MaxPayload == 96

IsDigit(c) == c \in {DigitChar(n) : n \in 0..9}
IsHex(c) == c \in {HexChar(n) : n \in 0..15}

\* a device address of the wire form: two digits, a colon, six digits
IsAddr(s) ==
    /\ Len(s) = 9
    /\ s[3] = ":"
    /\ \A i \in {1, 2, 4, 5, 6, 7, 8, 9} : IsDigit(s[i])

\* COMMAND_REGEX.match(s) (const.py): verb, ---, two addresses, --:------, code,
\* length, payload
COMMAND_REGEX_match(s) ==
    /\ Len(s) >= 45
    /\ SubSeq(s, 1, 2) \in Verbs
    /\ SubSeq(s, 3, 7) = <<" ", "-", "-", "-", " ">>
    /\ IsAddr(SubSeq(s, 8, 16))
    /\ s[17] = " "
    /\ IsAddr(SubSeq(s, 18, 26))
    /\ SubSeq(s, 27, 37) = <<" ", "-", "-", ":", "-", "-", "-", "-", "-", "-", " ">>
    /\ \A i \in 38..41 : IsHex(s[i])
    /\ s[42] = " "
    /\ \A i \in 43..45 : IsDigit(s[i])
    /\ Len(s) >= 48
    /\ s[46] = " "
    /\ (Len(s) - 46) % 2 = 0
    /\ \A i \in 47..Len(s) : IsHex(s[i])

\* Command.is_valid, as first computed
is_valid(c) ==
    IF ~COMMAND_REGEX_match(Command_str(c)) THEN FALSE
    ELSE IF 0 > Len(c.payload) /\ Len(c.payload) > MaxPayload THEN FALSE
    ELSE TRUE

NoCommand == Command_init(<<>>, <<>>, <<>>, <<>>, <<>>)

\* no Command, no qos
NoQos == [priority |-> 0, retries |-> 0, timeout |-> 0]

\* a constructor that raises returns no Command
Failed(e) == [err |-> e, cmd |-> NoCommand, qos |-> NoQos]

\* Command(verb, dest_addr, code, payload): the object and its qos (no qos
\* argument given: self.qos = self._qos), or the error raised
Command_new(verb, dest_addr, code, payload) ==
    LET c == Command_init(verb, HGI_ID, dest_addr, code, payload)
    IN  IF is_valid(c) THEN [err |-> "", cmd |-> c, qos |-> Command_qos(verb, code)]
        ELSE Failed("ValueError")

\* ZONE_MODE_LOOKUP, ZONE_MODE_MAP (const.py): the code of each zone mode, and
\* the mode of each code
ZONE_MODE_LOOKUP ==
    [m \in {"follow_schedule", "advanced_override", "permanent_override",
            "countdown_override", "temporary_override"} |->
        CASE m = "follow_schedule" -> <<"0", "0">>
          [] m = "advanced_override" -> <<"0", "1">>
          [] m = "permanent_override" -> <<"0", "2">>
          [] m = "countdown_override" -> <<"0", "3">>
          [] OTHER -> <<"0", "4">>]

ZONE_MODE_MAP == {"00", "01", "02", "03", "04"}

\* the modes given as a number, and what f"{mode:02X}" makes of them
IntModes == {"int 4"}
mode_02X(mode) == "04"

\* temp_to_hex(value) (helpers.py): hundredths of a degree in four hex digits,
\* 7FFF for None; a temperature is written as its hundredths
NoSetpoint == -1
temp_to_hex(value) ==
    IF value = NoSetpoint THEN <<"7", "F", "F", "F">>
    ELSE <<HexChar(value \div 4096), HexChar((value \div 256) % 16),
           HexChar((value \div 16) % 16), HexChar(value % 16)>>

\* dtm_to_hex(dtm) (helpers.py): minute, hour, day, month, year
NoDtm == [year |-> 0, month |-> 0, day |-> 0, hour |-> 0, minute |-> 0]
dtm_to_hex(dtm) ==
    fmt_02X(dtm.minute) \o fmt_02X(dtm.hour) \o fmt_02X(dtm.day) \o fmt_02X(dtm.month)
        \o <<HexChar(dtm.year \div 4096), HexChar((dtm.year \div 256) % 16),
             HexChar((dtm.year \div 16) % 16), HexChar(dtm.year % 16)>>

FFFFFF == <<"F", "F", "F", "F", "F", "F">>

\* a plausible slip: the until is appended when the mode is temporary_override
zone_mode_mut(debug, ctl_id, zone_idx, mode, setpoint, until) ==
    LET payload == IF "int" \in DOMAIN zone_idx THEN fmt_02X(zone_idx.int) ELSE zone_idx.str
        mode1 == IF mode \in IntModes THEN mode_02X(mode) ELSE mode
        mode2 == IF mode /= "None" THEN mode1
                 ELSE IF until = NoDtm
                 THEN (IF setpoint \notin {NoSetpoint, 0}
                       THEN "advanced_override" ELSE "follow_schedule")
                 ELSE (IF setpoint \notin {NoSetpoint, 0}
                       THEN "temporary_override" ELSE "advanced_override")
        mode3 == IF until = NoDtm /\ mode2 = "temporary_override"
                 THEN "advanced_override" ELSE mode2
    IN  IF debug /\ mode \notin DOMAIN ZONE_MODE_LOOKUP
        THEN Failed("AssertionError")
        ELSE IF mode /= "None" /\ mode1 \in ZONE_MODE_MAP
        THEN Failed("KeyError")
        ELSE IF mode /= "None" /\ mode1 \notin DOMAIN ZONE_MODE_LOOKUP
        THEN Failed("TypeError")
        ELSE Command_new(V_W, ctl_id, C_2349,
                 payload \o temp_to_hex(setpoint) \o ZONE_MODE_LOOKUP[mode3] \o FFFFFF
                     \o (IF mode2 /= "temporary_override" THEN <<>> ELSE dtm_to_hex(until)))

\* Command.zone_mode(ctl_id, zone_idx, mode, setpoint, until); debug is
\* __debug__, whether assert statements run
zone_mode(debug, ctl_id, zone_idx, mode, setpoint, until) ==
    LET payload == IF "int" \in DOMAIN zone_idx THEN fmt_02X(zone_idx.int) ELSE zone_idx.str
        mode1 == IF mode \in IntModes THEN mode_02X(mode) ELSE mode
        mode2 == IF mode /= "None" THEN mode1
                 ELSE IF until = NoDtm
                 THEN (IF setpoint \notin {NoSetpoint, 0}
                       THEN "advanced_override" ELSE "follow_schedule")
                 ELSE (IF setpoint \notin {NoSetpoint, 0}
                       THEN "temporary_override" ELSE "advanced_override")
        mode3 == IF until = NoDtm /\ mode2 = "temporary_override"
                 THEN "advanced_override" ELSE mode2
    IN  IF debug /\ mode \notin DOMAIN ZONE_MODE_LOOKUP
        THEN Failed("AssertionError")
        ELSE IF mode /= "None" /\ mode1 \in ZONE_MODE_MAP
        THEN Failed("KeyError")
        ELSE IF mode /= "None" /\ mode1 \notin DOMAIN ZONE_MODE_LOOKUP
        THEN Failed("TypeError")
        ELSE Command_new(V_W, ctl_id, C_2349,
                 payload \o temp_to_hex(setpoint) \o ZONE_MODE_LOOKUP[mode3] \o FFFFFF
                     \o (IF until = NoDtm THEN <<>> ELSE dtm_to_hex(until)))

(***************************************************************************)
(* SpecCtor: a Command is constructed, directly or by zone_mode            *)
(***************************************************************************)
C_10A0 == <<"1", "0", "A", "0">>
C_1100 == <<"1", "1", "0", "0">>
C_000A == <<"0", "0", "0", "A">>

\* f"{domain_id:02X}" if isinstance(domain_id, int) else domain_id
idx_payload(idx) == IF "int" \in DOMAIN idx THEN fmt_02X(idx.int) ELSE idx.str

\* an argument that is None is written NoSetpoint
IsNone(x) == x = NoSetpoint

\* Command.dhw_params(ctl_id, domain_id, setpoint, overrun, differential);
\* the temperatures are in hundredths of a degree.  The asserts are there
\* when debug (not under python -O); f"{None:02X}" is a TypeError.
dhw_params(debug, ctl_id, domain_id, setpoint, overrun, differential) ==
    IF debug /\ ~(IsNone(setpoint) \/ (3000 <= setpoint /\ setpoint <= 8500))
    THEN Failed("AssertionError")
    ELSE IF debug /\ ~(IsNone(overrun) \/ (0 <= overrun /\ overrun <= 10))
    THEN Failed("AssertionError")
    ELSE IF debug /\ ~(IsNone(differential) \/ (100 <= differential /\ differential <= 1000))
    THEN Failed("AssertionError")
    ELSE IF IsNone(overrun) THEN Failed("TypeError")
    ELSE Command_new(V_W, ctl_id, C_10A0,
                     idx_payload(domain_id) \o temp_to_hex(setpoint) \o fmt_02X(overrun)
                         \o temp_to_hex(differential))

\* Command.tpi_params(ctl_id, domain_id, cycle_rate, min_on_time, min_off_time,
\* proportional_band_width); None * 4 is a TypeError
tpi_params(debug, ctl_id, domain_id, cycle_rate, min_on_time, min_off_time, pbw) ==
    IF debug /\ ~(IsNone(cycle_rate) \/ cycle_rate \in {3, 6, 9, 12})
    THEN Failed("AssertionError")
    ELSE IF debug /\ ~(IsNone(min_on_time) \/ (1 <= min_on_time /\ min_on_time <= 5))
    THEN Failed("AssertionError")
    ELSE IF debug /\ ~(IsNone(min_off_time) \/ (1 <= min_off_time /\ min_off_time <= 5))
    THEN Failed("AssertionError")
    ELSE IF debug /\ ~(IsNone(pbw) \/ (150 <= pbw /\ pbw <= 300))
    THEN Failed("AssertionError")
    ELSE IF IsNone(cycle_rate) \/ IsNone(min_on_time) \/ IsNone(min_off_time)
    THEN Failed("TypeError")
    ELSE Command_new(V_W, ctl_id, C_1100,
                     idx_payload(domain_id) \o fmt_02X(cycle_rate * 4)
                         \o fmt_02X(min_on_time * 4) \o fmt_02X(min_off_time * 4)
                         \o <<"F", "F">> \o temp_to_hex(pbw) \o <<"0", "1">>)

\* Command.zone_config(ctl_id, zone_idx, min_temp, max_temp, local_override,
\* openwindow_function, multiroom_mode); 5 <= None is a TypeError, raised by
\* the assert; the bitmap is written in decimal, f"{bitmap}"
zone_config(debug, ctl_id, zone_idx, min_temp, max_temp, local_override, openwindow_function, multiroom_mode) ==
    LET bitmap == (IF local_override THEN 0 ELSE 1)
                      + (IF openwindow_function THEN 0 ELSE 2)
                      + (IF multiroom_mode THEN 0 ELSE 16)
    IN  IF debug /\ IsNone(min_temp) THEN Failed("TypeError")
        ELSE IF debug /\ ~(500 <= min_temp /\ min_temp <= 3000) THEN Failed("AssertionError")
        ELSE IF debug /\ IsNone(max_temp) THEN Failed("TypeError")
        ELSE IF debug /\ ~(0 <= max_temp /\ max_temp <= 3500) THEN Failed("AssertionError")
        ELSE Command_new(V_W, ctl_id, C_000A,
                         idx_payload(zone_idx) \o fmt_d(bitmap) \o temp_to_hex(min_temp)
                             \o temp_to_hex(max_temp))

CtorVerbs == Verbs \cup {<<"X", "X">>}
CtorAddrs == {CTL_ID, <<"0", "1", ":", "1", "4", "5">>}
CtorCodes == {C_0016, C_0404, C_0418, C_1F09, C_2309, C_2349, <<"2", "3", "0">>}
CtorPayloads ==
    {<<>>, P_00, <<"0", "0", "0">>, <<"0", "G">>,
     [i \in 1..(MaxPayload - 2) |-> "0"], [i \in 1..MaxPayload |-> "0"],
     [i \in 1..(MaxPayload + 2) |-> "0"]}

CtorZones == {[int |-> 1], [int |-> 10], [str |-> <<"0", "1">>]}
CtorModes == DOMAIN ZONE_MODE_LOOKUP \cup {"None", "04", "automatic"} \cup IntModes
CtorSetpoints == {NoSetpoint, 2000, 1950}
CtorUntils ==
    {NoDtm, [year |-> 2020, month |-> 6, day |-> 26, hour |-> 11, minute |-> 51],
     [year |-> 2021, month |-> 1, day |-> 2, hour |-> 3, minute |-> 4]}

InitCtor ==
    /\ HdrIdle /\ QueueIdle /\ SysIdle /\ SchedIdle /\ FaultIdle /\ CodecIdle /\ FragIdle /\ PutIdle
    /\ n_debug \in BOOLEAN
    /\ n_args = [fn |-> NotCalled]
    /\ n_cmd = NoCommand
    /\ n_qos = NoQos
    /\ n_err = NotCalled

\* Command(verb, dest_addr, code, payload)
NewCommand(verb, dest_addr, code, payload) ==
    LET made == Command_new(verb, dest_addr, code, payload)
    IN  /\ n_args.fn = NotCalled
        /\ n_args' = [fn |-> "Command", verb |-> verb, dest_addr |-> dest_addr,
                      code |-> code, payload |-> payload]
        /\ n_cmd' = made.cmd
        /\ n_qos' = made.qos
        /\ n_err' = made.err
        /\ UNCHANGED n_debug
        /\ UNCHANGED <<hvars, qvars, svars, kvars, fvars, cvars, gvars, xvars>>

\* Command.zone_mode(ctl_id, zone_idx, mode, setpoint, until)
ZoneMode(ctl_id, zone_idx, mode, setpoint, until) ==
    LET made == zone_mode(n_debug, ctl_id, zone_idx, mode, setpoint, until)
    IN  /\ n_args.fn = NotCalled
        /\ n_args' = [fn |-> "zone_mode", ctl_id |-> ctl_id, zone_idx |-> zone_idx,
                      mode |-> mode, setpoint |-> setpoint, until |-> until]
        /\ n_cmd' = made.cmd
        /\ n_qos' = made.qos
        /\ n_err' = made.err
        /\ UNCHANGED n_debug
        /\ UNCHANGED <<hvars, qvars, svars, kvars, fvars, cvars, gvars, xvars>>

\* the arguments of the parameter constructors: in their bounds, at their
\* bounds, out of them, and None
CtorDomains == {[int |-> 0], [str |-> <<"F", "A">>]}
CtorDhwSetpoints == {NoSetpoint, 2950, 3000, 5000, 8500, 8550}
CtorOverruns == {NoSetpoint, 5, 11}
CtorDifferentials == {NoSetpoint, 100, 50}
CtorCycleRates == {NoSetpoint, 0, 3, 4, 6, 9, 12}
CtorOnTimes == {NoSetpoint, 5, 6}
CtorBandWidths == {NoSetpoint, 150, 100}
CtorMinTemps == {NoSetpoint, 400, 500, 3000, 3100}
CtorMaxTemps == {NoSetpoint, 3500, 3600}

\* Command.dhw_params(ctl_id, domain_id, setpoint, overrun, differential)
DhwParams(domain_id, setpoint, overrun, differential) ==
    LET made == dhw_params(n_debug, CTL_ID, domain_id, setpoint, overrun, differential)
    IN  /\ n_args.fn = NotCalled
        /\ n_args' = [fn |-> "dhw_params", domain_id |-> domain_id, setpoint |-> setpoint,
                      overrun |-> overrun, differential |-> differential]
        /\ n_cmd' = made.cmd
        /\ n_qos' = made.qos
        /\ n_err' = made.err
        /\ UNCHANGED n_debug
        /\ UNCHANGED <<hvars, qvars, svars, kvars, fvars, cvars, gvars, xvars>>

\* Command.tpi_params(ctl_id, domain_id, cycle_rate, min_on_time, 5, pbw)
TpiParams(domain_id, cycle_rate, min_on_time, pbw) ==
    LET made == tpi_params(n_debug, CTL_ID, domain_id, cycle_rate, min_on_time, 5, pbw)
    IN  /\ n_args.fn = NotCalled
        /\ n_args' = [fn |-> "tpi_params", domain_id |-> domain_id, cycle_rate |-> cycle_rate,
                      min_on_time |-> min_on_time, proportional_band_width |-> pbw]
        /\ n_cmd' = made.cmd
        /\ n_qos' = made.qos
        /\ n_err' = made.err
        /\ UNCHANGED n_debug
        /\ UNCHANGED <<hvars, qvars, svars, kvars, fvars, cvars, gvars, xvars>>

\* Command.zone_config(ctl_id, zone_idx, min_temp, max_temp, local_override)
ZoneConfig(zone_idx, min_temp, max_temp, local_override) ==
    LET made == zone_config(n_debug, CTL_ID, zone_idx, min_temp, max_temp, local_override,
                            FALSE, FALSE)
    IN  /\ n_args.fn = NotCalled
        /\ n_args' = [fn |-> "zone_config", zone_idx |-> zone_idx, min_temp |-> min_temp,
                      max_temp |-> max_temp, local_override |-> local_override]
        /\ n_cmd' = made.cmd
        /\ n_qos' = made.qos
        /\ n_err' = made.err
        /\ UNCHANGED n_debug
        /\ UNCHANGED <<hvars, qvars, svars, kvars, fvars, cvars, gvars, xvars>>

NextCtor ==
    \/ \E v \in CtorVerbs, d \in CtorAddrs, c \in CtorCodes, p \in CtorPayloads :
           NewCommand(v, d, c, p)
    \/ \E z \in CtorZones, m \in CtorModes, s \in CtorSetpoints, u \in CtorUntils :
           ZoneMode(CTL_ID, z, m, s, u)
    \/ \E d \in CtorDomains, s \in CtorDhwSetpoints, o \in CtorOverruns,
          f \in CtorDifferentials : DhwParams(d, s, o, f)
    \/ \E d \in CtorDomains, c \in CtorCycleRates, t \in CtorOnTimes,
          w \in CtorBandWidths : TpiParams(d, c, t, w)
    \/ \E z \in CtorDomains, lo \in CtorMinTemps, hi \in CtorMaxTemps, o \in BOOLEAN :
           ZoneConfig(z, lo, hi, o)

SpecCtor == InitCtor /\ [][NextCtor]_vars

(***************************************************************************)
(* Claims about Command construction (SpecCtor)                            *)
(***************************************************************************)
\* the mode zone_mode sends: a temporary_override without until is sent as an
\* advanced_override
ClaimModeSent(mode, until) ==
    IF mode = "temporary_override" /\ until = NoDtm THEN "advanced_override" ELSE mode

\* C15: zone_mode(ctl, 0x01, mode='temporary_override', setpoint=20.0, until=dt)
\* builds the W 2349 with payload 01 + 07D0 + 04FFFFFF + dtm_hex(dt); for every
\* named mode the payload is zone_idx, setpoint, mode code, FFFFFF, and then
\* the until timestamp exactly when until is given.
C15_ZoneModePayload ==
    (n_args.fn = "zone_mode" /\ n_args.mode \in DOMAIN ZONE_MODE_LOOKUP)
        => /\ n_err = ""
           /\ n_cmd.verb = V_W /\ n_cmd.code = C_2349 /\ n_cmd.dest_addr = n_args.ctl_id
           /\ SubSeq(n_cmd.payload, 1, 2)
                  = (IF "int" \in DOMAIN n_args.zone_idx
                     THEN <<HexChar(n_args.zone_idx.int \div 16), HexChar(n_args.zone_idx.int % 16)>>
                     ELSE n_args.zone_idx.str)
           /\ SubSeq(n_cmd.payload, 3, 6) = temp_to_hex(n_args.setpoint)
           /\ SubSeq(n_cmd.payload, 7, 8)
                  = ZONE_MODE_LOOKUP[ClaimModeSent(n_args.mode, n_args.until)]
           /\ SubSeq(n_cmd.payload, 9, 14) = FFFFFF
           /\ IF n_args.until = NoDtm
              THEN Len(n_cmd.payload) = 14
              ELSE /\ Len(n_cmd.payload) = 26
                   /\ SubSeq(n_cmd.payload, 15, 26) = dtm_to_hex(n_args.until)
           /\ (/\ n_args.zone_idx = [int |-> 1] /\ n_args.mode = "temporary_override"
               /\ n_args.setpoint = 2000 /\ n_args.until.year = 2020)
                  => Cat(n_cmd.payload) = "0107D004FFFFFF330B1A0607E4"

C15_Witness ==
    /\ n_args.fn = "zone_mode"
    /\ n_args.zone_idx = [int |-> 1]
    /\ n_args.mode = "temporary_override"
    /\ n_args.setpoint = 2000
    /\ n_args.until.year = 2020
    /\ n_err = ""
    /\ Cat(n_cmd.payload) = "0107D004FFFFFF330B1A0607E4"

\* C16: every Command that was constructed has a payload of at most 96 hex
\* characters and a wire form that matches the command regex; a construction
\* with a longer payload or another wire form raises.
C16_CommandValidity ==
    (n_args.fn = "Command" /\ n_err = "")
        => /\ Len(n_cmd.payload) <= MaxPayload
           /\ COMMAND_REGEX_match(Command_str(n_cmd))

(***************************************************************************)
(* Claims about requests that fail (SpecFaultRun, SpecFetch)               *)
(***************************************************************************)
\* C17: when the callback of a request was called with None, because no reply
\* came, get_fault_log does not return a result: the run ends with the
\* expired-callback error.
C17_ExpiryIsRaised ==
    [][(f_run[1].pc = "wait" /\ f_run'[1].pc = "returned")
           => ~\E i \in 1..Len(f_inv) : f_inv[i].msg = 0 /\ f_inv[i].none > 0]_vars

\* C18: when all the fragments were fetched and they cannot be decoded, for
\* being no deflate stream or for not holding whole 20-byte records,
\* get_schedule returns the empty schedule (here None) and raises nothing.
C18_UndecodableIsEmpty ==
    \A t \in Tasks :
        (/\ ctl_data /= "schedule"
         /\ task[t].op = "get"
         /\ task[t].pc \in {"returned", "raised"}
         /\ task[t].res /= "ExpiredCallbackError"
         /\ schedule_done[task[t].zone]
         /\ rx_frags[task[t].zone] = [i \in 1..ctl_frags |-> i])
            => (task[t].pc = "returned" /\ task[t].res = "None")

\* the fields of the system that the claims on discovery are about
ClaimSame(after) ==
    /\ after.flog = s_flog
    /\ after.prev30c9 = s_prev30c9
    /\ after.zsensor = s_zsensor
    /\ after.bc = s_bc
    /\ after.dhw = s_dhw

\* C19: a message whose source device has a controller that is another system
\* is dropped by update(): fault_log, prev_30c9, the zones' sensors,
\* boiler_control and the DHW sensor stay as they are, with or without a
\* message before.
C19_ForeignMessageDropped ==
    \A m \in SysMsgs(s_clock) : \A p \in SysPrev :
        d_ctl[m.src] \notin {NoDev, CTL} => ClaimSame(update(SysState, m, p))

\* C20: an RP 10A0 of the system's controller to a type-07 device makes that
\* device the temp_sensor of the DHW zone, which is created if the system has
\* none; and setting dhw to another DhwZone when one is set fails and leaves
\* the one that is set.
C20_OneDhw ==
    /\ \A m \in SysMsgs(s_clock) : \A p \in SysPrev :
           (/\ m.code = "10A0" /\ m.verb = "RP" /\ m.src = CTL /\ DevType(m.dst) = "07"
            /\ s_dhw.sensor \in {NoDev, m.dst})
               => LET after == update(SysState, m, p)
                  IN  /\ after.dhw.sensor = m.dst
                      /\ after.dhw.zone = (IF s_dhw.zone = NoDhw THEN DhwFA ELSE s_dhw.zone)
    /\ \A z \in DhwZones :
           s_dhw.zone \notin {NoDhw, z}
               => LET after == dhw_set(SysState, z)
                  IN  after.err = "LookupError" /\ after.dhw = s_dhw

ClaimRelayNamed(m) ==
    IF /\ m.verb = "RQ" /\ m.src = CTL
       /\ \/ m.code = "3220" /\ DevType(m.dst) = "10"
          \/ m.code = "3EF0" /\ DevType(m.dst) \in {"10", "13"}
    THEN m.dst ELSE NoDev

\* C22: a message that names a boiler_control other than the one that is set
\* is contained: update() ends without an error, and the boiler_control and
\* the rest of the system's state are as they were.
C22_ConflictContained ==
    \A m \in SysMsgs(s_clock) : \A p \in SysPrev :
        (/\ ClaimRelayNamed(m) /= NoDev
         /\ s_bc \notin {NoDev, ClaimRelayNamed(m)})
            => LET after == update(SysState, m, p)
               IN  after.err = "" /\ ClaimSame(after)

\* C28: an RQ 3220 of the controller to a type-10 device, or an RQ 3EF0 of the
\* controller to a type-10 or type-13 device, makes that device the
\* boiler_control when there is none; any other 3220 or 3EF0 sets nothing.
C28_AuthoritativeRelay ==
    \A m \in SysMsgs(s_clock) : \A p \in SysPrev :
        m.code \in {"3220", "3EF0"}
            => LET after == update(SysState, m, p)
               IN  IF ClaimRelayNamed(m) /= NoDev
                   THEN s_bc = NoDev => after.bc = m.dst
                   ELSE after.bc = s_bc

\* the timeout a command is sent with (packet.py): the one of its qos, 0.5 s
\* when the qos names none; in tenths of a second
Qos_timeout(qos) == IF qos.timeout = 0 THEN 5 ELSE qos.timeout

\* C23: the default QoS of a Command: RQ 0016 and RQ 1F09 have priority HIGH
\* and 5 retries; RQ and W 0404 have priority HIGH and a timeout of 0.30 s;
\* RQ 0418 has priority LOW and 3 retries; every other command has priority
\* DEFAULT, 3 retries and a timeout of 0.5 s.
C23_DefaultQos ==
    (n_args.fn = "Command" /\ n_err = "")
        => IF n_args.verb = V_RQ /\ n_args.code \in {C_0016, C_1F09}
           THEN n_qos.priority = Priority_HIGH /\ n_qos.retries = 5
           ELSE IF n_args.verb \in {V_RQ, V_W} /\ n_args.code = C_0404
           THEN n_qos.priority = Priority_HIGH /\ Qos_timeout(n_qos) = 3
           ELSE IF n_args.verb = V_RQ /\ n_args.code = C_0418
           THEN n_qos.priority = Priority_LOW /\ n_qos.retries = 3
           ELSE /\ n_qos.priority = Priority_DEFAULT
                /\ n_qos.retries = 3
                /\ Qos_timeout(n_qos) = 5

\* a W 0404, to write a schedule, has been made
C23_Witness ==
    /\ n_args.fn = "Command" /\ n_err = ""
    /\ n_cmd.verb = V_W /\ n_cmd.code = C_0404
    /\ n_qos.priority = Priority_HIGH

\* C24: the parameter constructors validate their bounds: dhw_params returns a
\* Command only for a setpoint from 30 to 85, zone_config only for a min_temp
\* from 5 to 30, tpi_params only for a cycle_rate of 3, 6, 9 or 12, None
\* included; and a Command that is returned is valid.
C24_BoundsValidated ==
    n_err = ""
        => /\ n_args.fn = "dhw_params"
                  => 3000 <= n_args.setpoint /\ n_args.setpoint <= 8500
           /\ n_args.fn = "zone_config"
                  => 500 <= n_args.min_temp /\ n_args.min_temp <= 3000
           /\ n_args.fn = "tpi_params" => n_args.cycle_rate \in {3, 6, 9, 12}
           /\ n_args.fn \in {"dhw_params", "zone_config", "tpi_params"}
                  => COMMAND_REGEX_match(Command_str(n_cmd))

(***************************************************************************)
(* Claims about the null RP of the fault log (SpecFault)                   *)
(***************************************************************************)
\* the callbacks registered as daemons
ClaimDaemons(cbs) == {e \in cbs : e.daemon}

\* C25: the null RP 0418 has the header RP|<ctl>|0418, with no context; the
\* fault log registers one daemon callback under that header and later
\* requests leave it as it is; and a null RP is given to that daemon callback,
\* which ends the run, while the callbacks registered for the requests, under
\* a header with a log_idx, stay as they are.
C25_NullRpToDaemon ==
    [][/\ \A e \in callbacks' : e.daemon <=> e.header = null_header
       /\ Cardinality(ClaimDaemons(callbacks')) <= 1
       /\ f_sent' /= {} => Cardinality(ClaimDaemons(callbacks')) = 1
       /\ ClaimDaemons(callbacks) \subseteq callbacks'
       /\ f_last' = "RP_null"
              => /\ MsgHeader(NULL_RP_0418) = null_header
                 /\ callbacks' = callbacks
                 /\ fault_log_done'
                 /\ \E e \in ClaimDaemons(callbacks) :
                        f_inv' = [f_inv EXCEPT ![e.func].msg = @ + 1]]_vars

\* a second run has asked for entry 0 and for entry 1, and the null RP that
\* answers the second request has ended it, with the daemon callback still the
\* one the first run registered and the request's own callback still waiting
C25_Witness ==
    /\ f_last = "RP_null"
    /\ fault_log_done
    /\ Len(f_inv) = 4
    /\ f_inv[1].msg = 2
    /\ [header |-> null_header, func |-> 1, daemon |-> TRUE] \in callbacks
    /\ [header |-> RqHeader(1), func |-> 4, daemon |-> FALSE] \in callbacks

(***************************************************************************)
(* Claims about the exclusion step and the staleness guard (SpecZone)      *)
(***************************************************************************)
\* the zones the matching step of the array just handled has left without a
\* sensor: they had none, and have none now or the controller
ClaimLeftSensorless ==
    {z \in ZoneIdx : s_zsensor[z] = NoDev /\ s_zsensor'[z] \in {NoDev, CTL}}

\* the testable sensors with temperature t whose zone, after the matching
\* step, is z or unknown
ClaimCandidatesLeft(z, t) ==
    {d \in Devices :
        /\ d_ctl[d] \in {CTL, NoDev}
        /\ DevType(d) \in DEVICE_HAS_ZONE_SENSOR
        /\ d_30c9[d].temp = t
        /\ d_30c9[d].temp /= NoTemp
        /\ d_30c9[d].dtm > s_prev30c9.dtm
        /\ d_zone'[d] \in {z, NoZone}}

\* C26: when the matching runs on a 30C9 array and leaves exactly one zone
\* without a sensor, and that zone's temperature has changed and no testable
\* sensor matches it, the zone is bound to the controller itself; also when
\* the changed temperature is null or that of another changed zone.
C26_ExclusionBinds ==
    [][ClaimArrayMatched =>
         \A z \in ZoneIdx :
            (/\ ClaimLeftSensorless = {z}
             /\ ClaimChangedOf(z) /= {}
             /\ \A e \in ClaimChangedOf(z) : ClaimCandidatesLeft(z, e.temperature) = {})
                => s_zsensor'[z] = CTL]_vars

\* the 30C9 array that arrives now is the first, or the sync cycle is not
\* known, or the array before it is older than the sync cycle
ClaimStale ==
    \/ ~s_prev30c9.some
    \/ s_secs = NoSecs
    \/ s_clock > s_prev30c9.dtm + s_secs

\* C27: a 30C9 array that is the first, or arrives with the sync cycle
\* unknown, or later than the array before it plus the remaining seconds of
\* the sync cycle, binds no zone; and every array becomes the previous array.
C27_StalenessGuard ==
    [][(s_op'.name = "update_array" /\ s_clock' = s_clock)
          => /\ ClaimStale => (s_zsensor' = s_zsensor /\ d_zone' = d_zone /\ d_ctl' = d_ctl)
             /\ s_prev30c9'.some
             /\ s_prev30c9'.dtm = s_clock
             /\ s_prev30c9'.arr \in Arrays]_vars

\* an array has been handled with the sync cycle unknown: zone 00 has no
\* sensor although the thermostat has reported the temperature the array
\* gives for it, after the array before
C27_Witness ==
    /\ s_op.name = "update_array"
    /\ s_secs = NoSecs
    /\ s_prev30c9.dtm = 2
    /\ s_zsensor["00"] = NoDev
    /\ s_prev30c9.arr[1].temperature = 20
    /\ d_30c9[SEN1] = [temp |-> 20, dtm |-> 1]

(***************************************************************************)
(* SpecFrag: the fragments of one Schedule (command.py: _rq_fragment and   *)
(* its rq_callback, the schedule property), with the time and the          *)
(* frag_total of every RP 0404 the controller sends                        *)
(***************************************************************************)
\* bound: the calls of get_schedule
MaxFetches == 2

\* frag_total of the RP 0404 of a zone that has no schedule
NoSchedule == 255

\* FIVE_MINS = td(minutes=5); the time is in minutes
FIVE_MINS == 5

\* the times at which messages arrive
FragTimes == {0, 3, 6}

\* frag_total of the controller's replies
FragTotals == (1..MaxFrags) \cup {NoSchedule}

\* None as a slot of _rx_frags, as the msg of a callback, and as a request
NoSlot == [some |-> FALSE, index |-> 0, total |-> 0, dtm |-> 0]
NoRq == [idx |-> 0, cnt |-> 0]

\* the RP 0404 with this frag_index and frag_total, received at dtm
FragMsg(index, total, dtm) == [some |-> TRUE, index |-> index, total |-> total, dtm |-> dtm]

FragState ==
    [rx |-> g_rx, done |-> g_done, obj |-> g_obj, rq |-> g_rq, err |-> ""]

HasNone(rx) == \E i \in 1..Len(rx) : ~rx[i].some

\* next((i for i, f in enumerate(self._rx_frags) if f is None), -1), from 0
next_missing(rx) ==
    IF HasNone(rx)
    THEN (CHOOSE i \in 1..Len(rx) : ~rx[i].some /\ \A j \in 1..(i - 1) : rx[j].some) - 1
    ELSE -1

\* Schedule._rq_fragment(frag_cnt), with the time of each fragment kept
rq_fragment_at(G, frag_cnt) ==
    LET rx == IF frag_cnt = 0 THEN <<NoSlot>> ELSE G.rx
    IN  [G EXCEPT !.rx = rx, !.rq = [idx |-> next_missing(rx) + 1, cnt |-> frag_cnt]]

\* the loop 'for frag in [...]: frag = None if frag["msg"].dtm < msg.dtm -
\* FIVE_MINS else frag': it binds its own name anew and leaves the list as it is
discard_older(rx, msg) == rx

\* Schedule._rq_fragment.rq_callback(msg); msg is NoSlot for None
rq_callback_0404(G, msg) ==
    IF ~msg.some THEN [G EXCEPT !.done = TRUE]
    ELSE LET rx0 == IF msg.total = NoSchedule THEN G.rx
                    ELSE IF msg.total /= Len(G.rx) THEN [i \in 1..msg.total |-> NoSlot]
                    ELSE G.rx
         IN  IF msg.index > Len(rx0) THEN [G EXCEPT !.rx = rx0, !.err = "IndexError"]
             ELSE LET rx1 == discard_older([rx0 EXCEPT ![msg.index] = msg], msg)
                  IN  IF HasNone(rx1)
                      THEN rq_fragment_at([G EXCEPT !.rx = rx1], msg.total)
                      ELSE [G EXCEPT !.rx = rx1, !.done = TRUE]

\* Schedule.schedule (property): what it returns, and _schedule after it; the
\* fragments decode when they are the fragments of one schedule, and
\* zlib.error is caught
schedule_at(G) ==
    IF ~G.done \/ HasNone(G.rx) THEN [res |-> "None", obj |-> G.obj]
    ELSE IF G.obj /= "None" THEN [res |-> G.obj, obj |-> G.obj]
    ELSE IF G.rx[1].total = NoSchedule THEN [res |-> "{}", obj |-> G.obj]
    ELSE IF \A i \in 1..Len(G.rx) : G.rx[i].total = Len(G.rx)
    THEN [res |-> "schedule", obj |-> "schedule"]
    ELSE [res |-> "None", obj |-> "None"]

FragStore(G) ==
    /\ g_rx' = G.rx
    /\ g_done' = G.done
    /\ g_obj' = G.obj
    /\ g_rq' = G.rq
    /\ g_err' = G.err

\* Schedule.get_schedule(force_refresh), to its first sleep or to its return
FragGet(force) ==
    /\ g_pc = "idle"
    /\ g_rq = NoRq
    /\ g_calls < MaxFetches
    /\ g_calls' = g_calls + 1
    /\ LET G == [FragState EXCEPT !.done = IF force THEN FALSE ELSE @]
       IN  IF ~G.done
           THEN /\ FragStore(rq_fragment_at(G, 0))
                /\ g_pc' = "wait"
                /\ UNCHANGED g_res
           ELSE /\ FragStore([G EXCEPT !.obj = schedule_at(G).obj])
                /\ g_res' = schedule_at(G).res
                /\ UNCHANGED g_pc
    /\ g_op' = "get"
    /\ UNCHANGED <<g_now, g_last>>
    /\ UNCHANGED <<hvars, qvars, svars, kvars, fvars, cvars, nvars, xvars>>

\* the controller answers the request with the fragment asked for, of total
\* fragments, and the transport gives the RP to the request's callback
FragReply(total) ==
    /\ g_rq /= NoRq
    /\ LET msg == FragMsg(g_rq.idx, total, g_now)
       IN  /\ FragStore(rq_callback_0404([FragState EXCEPT !.rq = NoRq], msg))
           /\ g_last' = msg
    /\ g_op' = "reply"
    /\ UNCHANGED <<g_now, g_calls, g_pc, g_res>>
    /\ UNCHANGED <<hvars, qvars, svars, kvars, fvars, cvars, nvars, xvars>>

\* the request's callback expires: the transport calls it with None
FragExpire ==
    /\ g_rq /= NoRq
    /\ FragStore(rq_callback_0404([FragState EXCEPT !.rq = NoRq], NoSlot))
    /\ g_op' = "expire"
    /\ UNCHANGED <<g_now, g_calls, g_pc, g_res, g_last>>
    /\ UNCHANGED <<hvars, qvars, svars, kvars, fvars, cvars, nvars, xvars>>

\* get_schedule wakes with _schedule_done set: return self.schedule
FragReturn ==
    /\ g_pc = "wait"
    /\ g_done
    /\ g_pc' = "idle"
    /\ g_res' = schedule_at(FragState).res
    /\ g_obj' = schedule_at(FragState).obj
    /\ g_op' = "return"
    /\ UNCHANGED <<g_rx, g_done, g_rq, g_err, g_now, g_calls, g_last>>
    /\ UNCHANGED <<hvars, qvars, svars, kvars, fvars, cvars, nvars, xvars>>

\* get_schedule wakes after TIMER_LONG_TIMEOUT with nothing asked for any more
\* (the callback has raised): ExpiredCallbackError
FragTimeout ==
    /\ g_pc = "wait"
    /\ ~g_done
    /\ g_rq = NoRq
    /\ g_pc' = "idle"
    /\ g_res' = "ExpiredCallbackError"
    /\ g_op' = "timeout"
    /\ UNCHANGED <<g_rx, g_done, g_obj, g_rq, g_err, g_now, g_calls, g_last>>
    /\ UNCHANGED <<hvars, qvars, svars, kvars, fvars, cvars, nvars, xvars>>

\* time passes
FragTick(t) ==
    /\ t > g_now
    /\ g_now' = t
    /\ g_op' = "tick"
    /\ UNCHANGED <<g_rx, g_done, g_obj, g_rq, g_err, g_calls, g_pc, g_res, g_last>>
    /\ UNCHANGED <<hvars, qvars, svars, kvars, fvars, cvars, nvars, xvars>>

InitFrag ==
    /\ HdrIdle /\ QueueIdle /\ SysIdle /\ SchedIdle /\ FaultIdle /\ CodecIdle /\ CtorIdle /\ PutIdle
    /\ g_rx = <<>>
    /\ g_done = FALSE
    /\ g_obj = "None"
    /\ g_rq = NoRq
    /\ g_err = ""
    /\ g_now = 0
    /\ g_calls = 0
    /\ g_pc = "idle"
    /\ g_res = "not called"
    /\ g_last = NoSlot
    /\ g_op = "none"

NextFrag ==
    \/ \E force \in BOOLEAN : FragGet(force)
    \/ \E total \in FragTotals : FragReply(total)
    \/ FragExpire
    \/ FragReturn
    \/ FragTimeout
    \/ \E t \in FragTimes : FragTick(t)

SpecFrag == InitFrag /\ [][NextFrag]_vars

(***************************************************************************)
(* Claims about the fragments of a schedule (SpecFrag)                     *)
(***************************************************************************)
\* C29: after each fragment received, no fragment is kept in _rx_frags whose
\* message is more than five minutes older than the newest one: its slot is
\* None again, so that it is asked for again before the fetch is done.
C29_StaleFragmentsPruned ==
    \A i, j \in 1..Len(g_rx) :
        (g_rx[i].some /\ g_rx[j].some) => g_rx[i].dtm >= g_rx[j].dtm - FIVE_MINS

\* C30: an RP 0404 with frag_total 255, whatever its frag_index, ends the
\* fetch with no further request, and get_schedule then returns the empty
\* schedule; any other RP leaves _rx_frags with frag_total slots and its
\* fragment at position frag_index - 1.
C30_NoScheduleReply ==
    /\ (g_op = "reply" /\ g_last.total = NoSchedule)
           => (g_done /\ g_rq = NoRq /\ g_err = "")
    /\ (g_op = "return" /\ g_last.total = NoSchedule) => g_res = "{}"
    /\ (g_op = "reply" /\ g_last.total /= NoSchedule /\ g_last.index <= g_last.total)
           => (Len(g_rx) = g_last.total /\ g_rx[g_last.index] = g_last)

(***************************************************************************)
(* Schedule._tx_fragment (command.py): one call of set_schedule of one     *)
(* Schedule, the W 0404 it sends as text, and the controller's replies     *)
(***************************************************************************)
\* bound of the put model: how many fragments _sched_to_frags returned
MaxPutFrags == 11

\* blob[i : i + 82]: a fragment has 82 characters, the last one may have fewer
FragChars == 82
LastFragChars == {2, FragChars}

\* the zone of the Schedule (self.idx), and the constant bytes of a 0404 payload
PutZone == <<"0", "1">>
P_200008 == <<"2", "0", "0", "0", "0", "8">>

\* a fragment of n characters
FragData(n) == [i \in 1..n |-> "0"]

\* "{0}200008{1:02X}{2:02d}{3:02d}{4:s}".format(self.idx, int(len(frag) / 2),
\* frag_idx + 1, len(self._tx_frags), frag)
tx_payload(frags, frag_idx) ==
    PutZone \o P_200008 \o fmt_02X(frags[frag_idx + 1] \div 2)
        \o fmt_02d(frag_idx + 1) \o fmt_02d(Len(frags)) \o FragData(frags[frag_idx + 1])

\* a plausible slip: the index counted from 0
tx_payload_mut(frags, frag_idx) ==
    PutZone \o P_200008 \o fmt_02X(frags[frag_idx + 1] \div 2)
        \o fmt_02d(frag_idx) \o fmt_02d(Len(frags)) \o FragData(frags[frag_idx + 1])

\* Command(" W", self._ctl.id, "0404", payload, callback=tx_callback).rx_header
TxHeader(payload) ==
    pkt_header(Pkt(Command_init(V_W, HGI_ID, CTL_ID, C_0404, payload)), TRUE)

\* the controller's reply to a W 0404: it names the zone, the fragment and the
\* count the W named
TxReplyPayload(payload) ==
    Slice(payload, 0, 8) \o <<"0", "0">> \o Slice(payload, 10, 14)

\* the header of that reply, as it arrives
TxMsgHeader(payload) ==
    pkt_header(Pkt(Command_init(V_I, CTL_ID, HGI_ID, C_0404, payload)), FALSE)

\* the parser of 0404 (parsers.py): msg.payload["frag_index"] and ["frag_total"]
payload_frag_index(payload) == int_hex(Slice(payload, 10, 12))
payload_frag_total(payload) == int_hex(Slice(payload, 12, 14))

\* the state _tx_fragment and tx_callback work on, as one record
PutState ==
    [frags |-> x_frags, done |-> x_done, sent |-> x_sent, cb |-> x_cb, err |-> ""]

\* Schedule._tx_fragment(frag_idx): self._tx_frags[frag_idx] raises IndexError
\* for an index past the end
tx_fragment_at(X, frag_idx) ==
    IF frag_idx >= Len(X.frags)
    THEN [X EXCEPT !.err = "IndexError"]
    ELSE LET payload == tx_payload(X.frags, frag_idx)
         IN  [X EXCEPT !.sent = Append(@, [frag |-> frag_idx, payload |-> payload]),
                       !.cb = [some |-> TRUE, header |-> TxHeader(payload)]]

\* tx_callback(msg) of _tx_fragment; msg is None when the callback expired, and
\* None has no payload
tx_callback(X, msg) ==
    IF ~msg.some THEN [X EXCEPT !.err = "AttributeError"]
    ELSE IF msg.index < msg.total THEN tx_fragment_at(X, msg.index)
    ELSE [X EXCEPT !.done = TRUE]

PutStore(X) ==
    /\ x_frags' = X.frags
    /\ x_done' = X.done
    /\ x_sent' = X.sent
    /\ x_cb' = X.cb
    /\ x_err' = X.err

\* set_schedule(schedule), the lock being free, to its first sleep:
\* _sched_to_frags returns n fragments, the last of them of `last` characters
PutCall(n, last) ==
    /\ x_pc = "idle"
    /\ LET frags == [i \in 1..n |-> IF i = n THEN last ELSE FragChars]
       IN  PutStore(tx_fragment_at([PutState EXCEPT !.frags = frags, !.done = FALSE], 0))
    /\ x_pc' = "wait"
    /\ x_op' = "call"
    /\ UNCHANGED x_last
    /\ UNCHANGED <<hvars, qvars, svars, kvars, fvars, cvars, nvars, gvars>>

\* the controller answers the W sent last, and the transport gives the reply
\* to the callback it holds for the reply's header
PutReply ==
    /\ x_cb.some
    /\ LET payload == TxReplyPayload(x_sent[Len(x_sent)].payload)
           msg == [some |-> TRUE, index |-> payload_frag_index(payload),
                   total |-> payload_frag_total(payload)]
       IN  /\ TxMsgHeader(payload) = x_cb.header
           /\ PutStore(tx_callback([PutState EXCEPT !.cb.some = FALSE], msg))
           /\ x_last' = msg
    /\ x_op' = "reply"
    /\ UNCHANGED x_pc
    /\ UNCHANGED <<hvars, qvars, svars, kvars, fvars, cvars, nvars, gvars>>

\* the callback expires: the transport calls it with None
PutExpire ==
    /\ x_cb.some
    /\ PutStore(tx_callback([PutState EXCEPT !.cb.some = FALSE], [some |-> FALSE]))
    /\ x_op' = "expire"
    /\ UNCHANGED <<x_last, x_pc>>
    /\ UNCHANGED <<hvars, qvars, svars, kvars, fvars, cvars, nvars, gvars>>

\* set_schedule wakes in its loop: it returns when _schedule_done is set
PutReturn ==
    /\ x_pc = "wait" /\ x_done
    /\ x_pc' = "returned"
    /\ x_op' = "return"
    /\ UNCHANGED <<x_frags, x_done, x_sent, x_cb, x_last, x_err>>
    /\ UNCHANGED <<hvars, qvars, svars, kvars, fvars, cvars, nvars, gvars>>

\* set_schedule wakes after TIMER_LONG_TIMEOUT with _schedule_done not set: it
\* raises ExpiredCallbackError
PutTimeout ==
    /\ x_pc = "wait" /\ ~x_done
    /\ x_pc' = "raised"
    /\ x_op' = "timeout"
    /\ UNCHANGED <<x_frags, x_done, x_sent, x_cb, x_last, x_err>>
    /\ UNCHANGED <<hvars, qvars, svars, kvars, fvars, cvars, nvars, gvars>>

InitPut ==
    /\ HdrIdle /\ QueueIdle /\ SysIdle /\ SchedIdle /\ FaultIdle
    /\ CodecIdle /\ CtorIdle /\ FragIdle /\ PutIdle

NextPut ==
    \/ \E n \in 1..MaxPutFrags, last \in LastFragChars : PutCall(n, last)
    \/ PutReply
    \/ PutExpire
    \/ PutReturn
    \/ PutTimeout

SpecPut == InitPut /\ [][NextPut]_vars

(***************************************************************************)
(* C31: set_schedule sends the fragments of _tx_frags strictly in order    *)
(***************************************************************************)
\* the header the controller's reply about fragment n of the zone carries:
\* the zone and the fragment number as one byte, as _rq_fragment writes them
ClaimFragHeader(n) ==
    Join2(Join2(Join2(V_I, CTL_ID), C_0404), PutZone \o fmt_02X(n))

\* C31: the k-th W 0404 of a schedule put is fragment k of _tx_frags, sent once;
\* the frag index and count in its payload are k and len(_tx_frags), and the
\* rx header of the W is the header of the reply about fragment k; the put is
\* marked done exactly when the reply with frag_index == frag_total has
\* arrived, and then every fragment was sent; for every fragment count
C31_FragmentsInOrder ==
    /\ \A k \in 1..Len(x_sent) :
          /\ x_sent[k].frag = k - 1
          /\ payload_frag_index(x_sent[k].payload) = k
          /\ payload_frag_total(x_sent[k].payload) = Len(x_frags)
          /\ TxHeader(x_sent[k].payload) = ClaimFragHeader(k)
    /\ x_done <=> (x_last.some /\ x_last.index = x_last.total)
    /\ x_done => Len(x_sent) = Len(x_frags)
    /\ x_err /= "IndexError"

(***************************************************************************)
(* C32: a fragment's callback called with None ends the transaction        *)
(***************************************************************************)
\* C32: when the callback of a W 0404 of set_schedule has been called with the
\* expiry sentinel None, the put is marked done and no W is outstanding
C32_TimeoutAborts == x_op = "expire" => (x_done /\ ~x_cb.some)

(***************************************************************************)
(* C33: the calls of get_fault_log on one FaultLog do not disturb each     *)
(* other                                                                   *)
(***************************************************************************)
\* a call of get_fault_log made after call q is waiting for its own log
ClaimLaterRunWaits(q) == \E r \in Runs : r > q /\ f_run[r].pc = "wait"

\* C33: a reply to, or the expiry of, a request that descends from an earlier
\* call of get_fault_log neither marks the log done nor adds an entry to it
\* while a later call on the same FaultLog is waiting
C33_RunsIsolated ==
    [][/\ \A rq \in f_rq \ f_rq' :
             (f_last' \in {"RP", "RP_null"} /\ ClaimLaterRunWaits(f_inv[rq.func].run))
                 => (fault_log_done' = fault_log_done /\ fault_log' = fault_log)
       /\ \A i \in 1..Len(f_inv) :
             (f_last' = "expired" /\ f_inv'[i] /= f_inv[i]
                  /\ ClaimLaterRunWaits(f_inv[i].run))
                 => (fault_log_done' = fault_log_done /\ fault_log' = fault_log)]_vars

(***************************************************************************)
(* C34: the 0404 requests of a zone are sent under the zone's lock         *)
(***************************************************************************)
\* C34: every RQ or W 0404 for zone k, the first of a transaction or one sent
\* from a reply's callback, is sent while zone_lock_idx is k; and a call that
\* ends resets zone_lock_idx only while zone_lock_idx is its own zone
C34_SentUnderLock ==
    [][/\ \A cb \in sched_cbs' \ sched_cbs : zone_lock_idx' = cb.zone
       /\ \A t \in Tasks :
             (task[t].pc = "wait" /\ task'[t].pc \in {"returned", "raised"})
                 => zone_lock_idx = task[t].zone]_vars

(***************************************************************************)
(* SpecSchedLive: the calls of get_schedule/set_schedule with the event    *)
(* loop's fairness: a task that can run does run.  A caller may call again *)
(* once its call has ended; a controller may never answer.                 *)
(***************************************************************************)
\* bound of the lock model: a zone is not fetched again once this many RQ 0404
\* were sent for it
MaxRqSent == 1

\* the caller whose call has ended calls get_schedule or set_schedule again
Recall(t, z, op, force, frags) ==
    /\ task[t].pc \in {"returned", "raised"}
    /\ op = "get" => Len(rq_sent[z]) < MaxRqSent
    /\ task' = [task EXCEPT ![t] =
                   [pc |-> "lock", zone |-> z, op |-> op, force |-> force, frags |-> frags,
                    res |-> ""]]
    /\ UNCHANGED <<zone_lock_idx, schedule_done, rx_frags, rq_sent, tx_frags, sched_cbs,
                   schedule_obj, kenv>>
    /\ UNCHANGED <<hvars, qvars, svars, fvars, pvars>>

InitSchedLive == InitSched /\ ctl_frags = 1 /\ ctl_data = "schedule"

\* the zone whose Schedule a caller uses: each caller has its own zone
ZoneOf(t) == IF t = 1 THEN "00" ELSE "01"

NextSchedLive ==
    \/ \E t \in Tasks : Call(t, ZoneOf(t), "get", TRUE, 0)
    \/ \E t \in Tasks : Call(t, ZoneOf(t), "set", FALSE, 1)
    \/ \E t \in Tasks : Recall(t, ZoneOf(t), "get", TRUE, 0)
    \/ \E t \in Tasks : Recall(t, ZoneOf(t), "set", FALSE, 1)
    \/ \E t \in Tasks : TryLock(t)
    \/ \E t \in Tasks, timeout \in BOOLEAN : Poll(t, timeout)
    \/ \E cb \in AllCallbacks : RqReply(cb)
    \/ \E cb \in AllCallbacks : TxReply(cb)
    \/ \E cb \in AllCallbacks : Expire(cb)

\* asyncio runs every task that is ready: a task whose turn of _obtain_lock's
\* loop would find the lock its own takes it, and a task in the loop that
\* waits for _schedule_done wakes (after TIMER_LONG_TIMEOUT at the latest)
FairSchedLive ==
    \A t \in Tasks :
        /\ WF_vars(TryLock(t))
        /\ WF_vars(\E timeout \in BOOLEAN : Poll(t, timeout))

SpecSchedLive == InitSchedLive /\ [][NextSchedLive]_vars /\ FairSchedLive

(***************************************************************************)
(* C35: no call waits for the lock for ever                                *)
(***************************************************************************)
\* every transaction that has the lock releases it
ClaimLockReleased == \A z \in ZoneIdx : (zone_lock_idx = z) ~> (zone_lock_idx = NoZone)

\* a call that has the lock returns or raises
ClaimCallEnds ==
    \A t \in Tasks : (task[t].pc = "wait") ~> (task[t].pc \in {"returned", "raised"})

\* C35: if every transaction that takes the lock releases it, every call that
\* waits in _obtain_lock gets the lock, whatever the calls of other zones do,
\* and every call that has the lock returns or raises
C35_LockLiveness ==
    ClaimLockReleased =>
        /\ \A t \in Tasks : (task[t].pc = "lock") ~> (task[t].pc /= "lock")
        /\ ClaimCallEnds

(***************************************************************************)
(* C36: a device is the temp_sensor of one zone at most                    *)
(***************************************************************************)
\* C36: whatever 30C9 arrays and sensor temperatures have been handled, no
\* device is the temp_sensor of two zones of the system: the sensor (or the
\* controller) a zone is bound to knows that zone as its own
C36_OneZonePerSensor ==
    /\ \A z1 \in ZoneIdx : \A z2 \in ZoneIdx \ {z1} :
           s_zsensor[z1] /= NoDev => s_zsensor[z1] /= s_zsensor[z2]
    /\ \A z \in ZoneIdx : s_zsensor[z] /= NoDev => d_zone[s_zsensor[z]] = z

\* the thermostat is the sensor of zone 00; it has since reported the very
\* temperature the array just handled gives for zone 01, and zone 01 was bound
\* to the controller instead
C36_Witness ==
    /\ s_op.name = "update_array"
    /\ s_zsensor["00"] = SEN1
    /\ s_zsensor["01"] = CTL
    /\ s_prev30c9.dtm = 2
    /\ d_30c9[SEN1].dtm = 2
    /\ d_30c9[SEN1].temp = s_prev30c9.arr[2].temperature
    /\ s_prev30c9.arr[1].temperature /= s_prev30c9.arr[2].temperature

(***************************************************************************)
(* C37: _frags_to_sched groups the switchpoints by day                     *)
(***************************************************************************)
\* the 20-byte records of the stream that was decoded, unpacked
ClaimRecords ==
    LET raw == zlib_decompress(c_frags.val)
    IN  [i \in 1..(Len(raw) \div 20) |-> struct_unpack(SubSeq(raw, 20 * i - 19, 20 * i))]

\* the switchpoints of the records of day d, in record order
ClaimSwitchpointsOf(d) ==
    LET OfDay(r) == r[2] = d
        sel == SelectSeq(ClaimRecords, OfDay)
    IN  [k \in 1..Len(sel) |->
            [time_of_day |-> fmt_02d(sel[k][3] \div 60) \o <<":">> \o fmt_02d(sel[k][3] % 60),
             heat_setpoint |-> temp_div_100(sel[k][4])]]

\* the place of the first record of day d
ClaimFirstRecord(d) ==
    CHOOSE k \in 1..Len(ClaimRecords) :
        ClaimRecords[k][2] = d /\ \A m \in 1..(k - 1) : ClaimRecords[m][2] /= d

\* C37: the schedule _frags_to_sched returns has exactly one entry for each
\* day_of_week that has a record and none for a day that has no record, the
\* entries in the order of the days' first records, each with exactly the
\* switchpoints of its day in record order (HH:MM of minute_of_day, setpoint
\* of centi-degrees / 100)
C37_GroupedByDay ==
    c_out.err = "" =>
        LET out == c_out.val.schedule
        IN  /\ \A i \in 1..Len(out) :
                   /\ \E k \in 1..Len(ClaimRecords) : ClaimRecords[k][2] = out[i].day_of_week
                   /\ out[i].switchpoints = ClaimSwitchpointsOf(out[i].day_of_week)
                   /\ \A j \in 1..Len(out) : j /= i => out[j].day_of_week /= out[i].day_of_week
            /\ \A k \in 1..Len(ClaimRecords) :
                   \E i \in 1..Len(out) : out[i].day_of_week = ClaimRecords[k][2]
            /\ \A i \in 1..Len(out) : \A j \in (i + 1)..Len(out) :
                   (/\ \E k \in 1..Len(ClaimRecords) : ClaimRecords[k][2] = out[i].day_of_week
                    /\ \E k \in 1..Len(ClaimRecords) : ClaimRecords[k][2] = out[j].day_of_week)
                       => ClaimFirstRecord(out[i].day_of_week)
                              < ClaimFirstRecord(out[j].day_of_week)

====
